---- MODULE Spec2Model ----
(***************************************************************************)
(* The concurrent batch-request engine of scripts/ai_translator.py:        *)
(* AIClient (cache, process_batch, _send_request_with_retry,               *)
(* process_batches) and AITranslator.translate_items built on it.          *)
(*                                                                         *)
(* Work items are identified by their cache key (AITranslator derives the  *)
(* key from section, key and en_value, the only fields the engine reads).  *)
(* Result values are pairs <<tag, n>>: the tag is the cache key of the     *)
(* item the text belongs to, n tells the texts for one item apart.         *)
(* Relative indices and list positions are 0-based, as in the source.      *)
(***************************************************************************)
EXTENDS Integers, Sequences, FiniteSets, TLC

\* Bounds of the model.
MaxItems == 2
MaxBatchSize == 2
MaxWorkers == 2
NumKeys == 2
NumVariants == 2

\* AIClient.__init__ default of max_retries.
DefaultMaxRetries == 3

Keys == 1..NumKeys

Min(a, b) == IF a < b THEN a ELSE b

\* ---------------------------------------------------------------- values
\* Python None.
None == <<0, 0>>
\* The empty string "".
EmptyStr == <<0, 1>>
\* A text the parser keyed with an index that denotes no requested item.
Stray == <<0, 2>>
\* A non-empty text produced for an item with cache key k.
Parsed(k, n) == <<k, n>>
ParsedValues == {Parsed(k, n) : k \in Keys, n \in 1..NumVariants}
\* TranslationItem.en_value, the fallback of translate_items.
en_value(item) == <<item, 0>>
\* AITranslator._get_cache_key: section:key:en_value.
get_cache_key(item) == item

\* ---------------------------------------------------------------- batcher
\* len(batches) after "for i in range(0, len(all_items), batch_size)".
NumBatches(n, bsz) == (n + bsz - 1) \div bsz
\* Mutant of StartIdx: every batch starts at the first item.
StartIdxZero(b, bsz) == 0
\* start_idx = batch_idx * self.batch_size
StartIdx(b, bsz) == b * bsz
\* len(all_items[i : i + batch_size]) for i = StartIdx(b, bsz)
BatchLen(n, b, bsz) == Min(StartIdx(b, bsz) + bsz, n) - StartIdx(b, bsz)

VARIABLES
    items,          \* all_items of the runs: a sequence of cache keys
    batch_size,     \* self.batch_size
    max_workers,    \* self.max_workers
    max_retries,    \* self.max_retries
    use_cache_key,  \* a cache_key_callback is supplied
    cache,          \* self.cache: cache key -> value
    phase,          \* "idle" | "running" | "returned" | "raised"
    batch,          \* per batch index: the state of its future / process_batch
    all_results,    \* process_batches' all_results, index -> value
    final_results,  \* the list process_batches returned
    translations,   \* the list translate_items returned
    progress_log,   \* the (done, total) pairs the progress observer received
    net_attempts,   \* network attempts (session.post calls) of the run
    prompt_calls,   \* prompt_callback invocations of the run
    transport_calls, \* _send_request_with_retry invocations of the run
    cache_hits,     \* lookups of the run that found the key in the cache
    got_200,        \* some attempt of the run ended with status 200
    warm,           \* the cache held every item's key when the run started
    slot_writes,    \* per index: the assignments to all_results[index] the
                    \* collection loop has made in the run
    failed_slots,   \* indices whose batch failed: transport failure (the
                    \* remaining items) or an exception (the whole batch)
    prev_results,   \* the list the previous run returned
    cut,            \* the batching loop of lines 231-235: its position i, the
                    \* batches appended so far (lists of absolute indices)
                    \* and whether the loop has ended
    conf,           \* construction from config.py: whether the module can be
                    \* found, the names it defines, the batch_size argument
                    \* and how the construction ended
    rt,             \* one call of _send_request_with_retry followed attempt
                    \* by attempt: retry_delay, the loop index, the position
                    \* in the loop body, the events so far and the outcome
    pr,             \* one call of _parse_batch_response: response_text,
                    \* len(items), the position in the function, the lines,
                    \* tier 1's dict and the dict returned
    eq,             \* AITranslator.translate_items and the legacy
                    \* BatchTranslator.translate_items side by side on the
                    \* same batches and responses: each one's cache and
                    \* result list
    cf              \* one call of update_cfg_file: the working lines, the
                    \* key index, the updates and the position in the list

vars == <<items, batch_size, max_workers, max_retries, use_cache_key, cache,
          phase, batch, all_results, final_results, translations,
          progress_log, net_attempts, prompt_calls, transport_calls,
          cache_hits, got_200, warm, slot_writes, failed_slots, prev_results, cut,
          conf, rt, pr, eq, cf>>

\* What a run of process_batches leaves alone: the parameters of the client
\* and of the call, and the batching loop and the construction from
\* config.py, the retry loop, the response parser, the comparison with the
\* legacy translator and update_cfg_file, which are followed on their own.
config == <<items, batch_size, max_workers, max_retries, use_cache_key, cut, conf, rt,
           pr, eq, cf>>
\* The locals of a run and the counters kept about it.
run_vars == <<all_results, final_results, translations, progress_log, prev_results,
              warm, slot_writes, failed_slots>>
counters == <<net_attempts, prompt_calls, transport_calls, got_200>>

N == Len(items)
T == NumBatches(N, batch_size)
BatchIds == 0..(T - 1)
\* The cache key of the item at relative index r of batch b.
ItemAt(b, r) == items[StartIdx(b, batch_size) + r + 1]

\* ---------------------------------------------------------------- maps
EmptyMap == [x \in {} |-> None]
Put(f, k, v) == [x \in DOMAIN f \cup {k} |-> IF x = k THEN v ELSE f[x]]
\* seq[idx] for a 0-based Python index idx >= -len(seq) (negative counts from the end)
PyIndex(seq, idx) == IF idx >= 0 THEN seq[idx + 1] ELSE seq[Len(seq) + idx + 1]

\* The state of a batch whose future is submitted and not started.
QueuedBatch ==
    [st |-> "queued", i |-> 0, cached_results |-> EmptyMap,
     remaining_items |-> <<>>, remaining_indices |-> <<>>,
     prompt_items |-> <<>>, attempts |-> 0, sleeps |-> 0,
     resp_attempt |-> 0, batch_results |-> <<>>,
     results |-> EmptyMap, writes |-> <<>>, transport_failed |-> FALSE]
\* The state of a batch whose future the collection loop has consumed.
CollectedBatch == [QueuedBatch EXCEPT !.st = "collected"]

Running(b) == batch[b].st \in {"lookup", "request", "merge"}
Finished(b) == batch[b].st \in {"done", "failed"}

\* ---------------------------------------------------------------- transport
\* What one attempt can meet: session.post raises; a status other than 200;
\* a 200 response whose text is non-empty; a 200 response whose text is ""
\* (no such field, or an empty content); a 200 response whose body makes
\* lines 180-191 raise (response.json() fails, the body is not an object, or
\* content is null, so that .strip() has nothing to act on).
Outcomes == {"exception", "status", "text", "empty", "malformed"}

\* _send_request_with_retry: the loop "for attempt in range(self.max_retries)"
\* over the outcomes of the successive attempts. A 200 response returns its
\* (stripped) text, possibly empty; anything else sleeps if another attempt
\* follows, and after the last attempt the function returns None.
RECURSIVE RetryLoop(_, _, _, _)
RetryLoop(outcomes, retries, attempt, sleeps) ==
    IF attempt >= retries
    THEN [response |-> "None", attempts |-> attempt, sleeps |-> sleeps,
          resp_attempt |-> 0]
    ELSE IF outcomes[attempt + 1] \in {"text", "empty"}
    THEN [response |-> outcomes[attempt + 1], attempts |-> attempt + 1,
          sleeps |-> sleeps, resp_attempt |-> attempt + 1]
    ELSE RetryLoop(outcomes, retries, attempt + 1,
                   IF attempt < retries - 1 THEN sleeps + 1 ELSE sleeps)

send_request_with_retry(outcomes, retries) == RetryLoop(outcomes, retries, 0, 0)

\* AIClient.__init__ default of retry_delay (seconds).
DefaultRetryDelay == 2

\* _send_request_with_retry before its loop: no event yet.
RetryStart(delay) ==
    [delay |-> delay, attempt |-> 0, pc |-> "try", log |-> <<>>, response |-> "pending"]

\* "if not response_text" (line 122): None and "" both count as failure.
ResponseFailed(r) == r.response \in {"None", "empty"}

\* ---------------------------------------------------------------- batching loop
\* Bounds of the batching loop followed on its own.
MaxCutItems == 45
MaxCutBatchSize == 20

\* Before "for i in range(0, len(all_items), self.batch_size)".
CutStart == [pos |-> 0, batches |-> <<>>, done |-> FALSE]

\* Mutant of Slice: the slice end is not clipped to the list length.
SliceUnclipped(pos, bsz, n) == [j \in 1..bsz |-> pos + j - 1]

\* all_items[i : i + batch_size] as the list of the absolute indices it
\* holds: a Python slice ends at the list's end when i + batch_size exceeds it.
Slice(pos, bsz, n) == [j \in 1..(Min(pos + bsz, n) - pos) |-> pos + j - 1]

\* ---------------------------------------------------------------- construction
\* The names create_batch_translator imports from config (lines 617-623)
\* and the ones translate_optimized imports when it is loaded (line 23).
FactoryNames == {"API_KEY", "API_URL", "MODEL_NAME", "TRANSLATION_OPTIONS", "BATCH_SIZE"}
LegacyNames == {"API_KEY", "API_URL", "MODEL_NAME", "TRANSLATION_OPTIONS"}

\* A client built directly, with a config.py that defines every name.
ConfStart == [module |-> TRUE, names |-> FactoryNames, arg |-> 0, outcome |-> "none",
              size |-> 0]

\* "from config import ..." raises ImportError when the module cannot be
\* found or does not define one of the names.
ImportFails(c, wanted) == ~c.module \/ ~(wanted \subseteq c.names)

\* ---------------------------------------------------------------- Init
\* ---------------------------------------------------------------- _parse_batch_response
\* A text is a sequence of characters. The characters of the texts followed
\* here: two digits, the full stop, the ASCII colon, the space, the line
\* feed, a character of a translation, and the two prefixes of line 529,
\* each taken as one character.
Digits == {"1", "2"}
Zhongwen == "Z"    \* the prefix 中文翻译：
Fanyi == "F"       \* the prefix 翻译：
Chars == Digits \cup {".", ":", " ", "\n", "x", Zhongwen, Fanyi}
IsSpace(c) == c \in {" ", "\n"}

\* str.strip()
RECURSIVE LStrip(_)
LStrip(s) == IF s # <<>> /\ IsSpace(Head(s)) THEN LStrip(Tail(s)) ELSE s
RECURSIVE RStrip(_)
RStrip(s) ==
    IF s # <<>> /\ IsSpace(s[Len(s)]) THEN RStrip(SubSeq(s, 1, Len(s) - 1)) ELSE s
Strip(s) == RStrip(LStrip(s))

\* str.split("\n")
RECURSIVE Split(_)
Split(s) ==
    IF \A i \in 1..Len(s) : s[i] # "\n" THEN <<s>>
    ELSE LET i == CHOOSE j \in 1..Len(s) :
                    s[j] = "\n" /\ \A k \in 1..(j - 1) : s[k] # "\n"
         IN  <<SubSeq(s, 1, i - 1)>> \o Split(SubSeq(s, i + 1, Len(s)))

\* The number of characters from position i on that \s (\d) matches one
\* after the other.
RECURSIVE SpaceRun(_, _)
SpaceRun(s, i) == IF i <= Len(s) /\ IsSpace(s[i]) THEN 1 + SpaceRun(s, i + 1) ELSE 0
RECURSIVE DigitRun(_, _)
DigitRun(s, i) == IF i <= Len(s) /\ s[i] \in Digits THEN 1 + DigitRun(s, i + 1) ELSE 0

\* int() of a sequence of digits
RECURSIVE IntOf(_)
IntOf(ds) ==
    IF ds = <<>> THEN 0
    ELSE 10 * IntOf(SubSeq(ds, 1, Len(ds) - 1)) + (IF ds[Len(ds)] = "1" THEN 1 ELSE 2)

\* The ways the pattern of line 529,
\*   ^\s*(\d+)\.?\s*(?:中文翻译：|翻译：|:)?\s*(.+)$
\* matches the line s: how many characters each part takes, in the order of
\* the pattern: leading spaces, digits, full stop, spaces, prefix, spaces.
\* What is left is group 2 and has at least one character.
Tier1Matches(s) ==
    LET L == Len(s)
        spaces == Cardinality({i \in 1..L : IsSpace(s[i])})
        digits == Cardinality({i \in 1..L : s[i] \in Digits})
    IN
    {m \in [sp0 : 0..spaces, d : 1..digits, dot : 0..1,
            sp1 : 0..spaces, pre : 0..1, sp2 : 0..spaces] :
        /\ m.sp0 <= SpaceRun(s, 1)
        /\ m.d <= DigitRun(s, m.sp0 + 1)
        /\ m.dot = 1 => (m.sp0 + m.d < L /\ s[m.sp0 + m.d + 1] = ".")
        /\ m.sp1 <= SpaceRun(s, m.sp0 + m.d + m.dot + 1)
        /\ m.pre = 1 => (m.sp0 + m.d + m.dot + m.sp1 < L
                          /\ s[m.sp0 + m.d + m.dot + m.sp1 + 1] \in {Zhongwen, Fanyi, ":"})
        /\ m.sp2 <= SpaceRun(s, m.sp0 + m.d + m.dot + m.sp1 + m.pre + 1)
        /\ m.sp0 + m.d + m.dot + m.sp1 + m.pre + m.sp2 < L}

\* Every part of the pattern is greedy: the match re.match returns takes as
\* much as it can for the earlier part, then for the next one.
Greedier(a, b) ==
    LET ka == <<a.sp0, a.d, a.dot, a.sp1, a.pre, a.sp2>>
        kb == <<b.sp0, b.d, b.dot, b.sp1, b.pre, b.sp2>>
    IN  \E i \in 1..6 : ka[i] > kb[i] /\ \A j \in 1..(i - 1) : ka[j] = kb[j]

\* re.match on a line (lines 528-530): no match, or groups 1 and 2.
NoMatch == [matched |-> FALSE, label |-> <<>>, payload |-> <<>>]
Tier1Match(s) ==
    IF Tier1Matches(s) = {} THEN NoMatch
    ELSE LET m == CHOOSE a \in Tier1Matches(s) :
                     \A b \in Tier1Matches(s) \ {a} : Greedier(a, b)
             skip == m.sp0 + m.d + m.dot + m.sp1 + m.pre + m.sp2
         IN  [matched |-> TRUE,
              label |-> SubSeq(s, m.sp0 + 1, m.sp0 + m.d),
              payload |-> SubSeq(s, skip + 1, Len(s))]

\* "if 0 <= idx < len(items)" (line 533)
InRange(idx, n) == 0 <= idx /\ idx < n

\* The first loop (lines 526-534) over the lines from position k on,
\* starting from the dict t.
RECURSIVE Tier1From(_, _, _, _)
Tier1From(lines, n, k, t) ==
    IF k > Len(lines) THEN t
    ELSE LET m == Tier1Match(Strip(lines[k]))
             idx == IntOf(m.label) - 1
         IN  Tier1From(lines, n, k + 1,
                       IF m.matched /\ InRange(idx, n)
                       THEN Put(t, idx, Strip(m.payload)) ELSE t)
Tier1(lines, n) == Tier1From(lines, n, 1, EmptyMap)

\* re.sub(r"^\d+[\.:]\s*", "", line) (line 544)
SubNumber(s) ==
    LET d == DigitRun(s, 1) IN
    IF d >= 1 /\ d < Len(s) /\ s[d + 1] \in {".", ":"}
    THEN SubSeq(s, d + 2 + SpaceRun(s, d + 2), Len(s))
    ELSE s
\* re.sub of a prefix at the start of the line (lines 546 and 547)
SubPrefix(s, prefix) == IF s # <<>> /\ Head(s) = prefix THEN Tail(s) ELSE s

\* The body of the second loop for one line (lines 542-548).
Tier2Line(line) ==
    Strip(SubPrefix(SubPrefix(SubNumber(Strip(line)), Zhongwen), Fanyi))

\* The second loop (lines 539-548): line i goes to index i while i is
\* smaller than len(items).
Tier2(lines, n) ==
    [i \in 0..(Min(Len(lines), n) - 1) |-> Tier2Line(lines[i + 1])]

\* Mutant of Tier2Needed: the second loop always runs.
Tier2Always(t, n) == TRUE
\* "if len(translations) != len(items)" (line 537)
Tier2Needed(t, n) == Cardinality(DOMAIN t) # n

\* No comparison with the legacy translator and no call of update_cfg_file
\* in progress.
EqNone == [pc |-> "none"]
CfgNone == [pc |-> "none"]

\* A call of _parse_batch_response that has not started.
ParseStart(text, n) ==
    [text |-> text, n |-> n, pc |-> "tier1", lines |-> <<>>,
     tier1 |-> EmptyMap, translations |-> EmptyMap, tier |-> 0]

ItemLists == UNION {[1..n -> Keys] : n \in 0..MaxItems}

Init ==
    /\ items \in ItemLists
    /\ batch_size \in 1..MaxBatchSize
    /\ max_workers \in 1..MaxWorkers
    /\ max_retries \in {1, DefaultMaxRetries}
    /\ use_cache_key \in BOOLEAN
    /\ cache = EmptyMap
    /\ phase = "idle"
    /\ batch = <<>>
    /\ all_results = EmptyMap
    /\ final_results = <<>>
    /\ translations = <<>>
    /\ progress_log = <<>>
    /\ net_attempts = 0
    /\ prompt_calls = 0
    /\ transport_calls = 0
    /\ cache_hits = 0
    /\ got_200 = FALSE
    /\ warm = FALSE
    /\ slot_writes = EmptyMap
    /\ failed_slots = {}
    /\ prev_results = <<>>
    /\ cut = CutStart
    /\ conf = ConfStart
    /\ rt = RetryStart(DefaultRetryDelay)
    /\ pr = ParseStart(<<>>, 1)
    /\ eq = EqNone
    /\ cf = CfgNone

\* The caches an earlier call with a cache_key_callback can have left on
\* the client: texts for some of the keys.
FilledCaches ==
    UNION {{c \in [S -> ParsedValues] : \A k \in S : c[k][1] = k} : S \in SUBSET Keys}

\* process_batches called without a cache_key_callback on a client whose
\* cache may hold entries.
InitNoKey ==
    /\ items \in ItemLists
    /\ batch_size \in 1..MaxBatchSize
    /\ max_workers \in 1..MaxWorkers
    /\ max_retries \in {1, DefaultMaxRetries}
    /\ use_cache_key = FALSE
    /\ cache \in FilledCaches
    /\ phase = "idle"
    /\ batch = <<>>
    /\ all_results = EmptyMap
    /\ final_results = <<>>
    /\ translations = <<>>
    /\ progress_log = <<>>
    /\ net_attempts = 0
    /\ prompt_calls = 0
    /\ transport_calls = 0
    /\ cache_hits = 0
    /\ got_200 = FALSE
    /\ warm = FALSE
    /\ slot_writes = EmptyMap
    /\ failed_slots = {}
    /\ prev_results = <<>>
    /\ cut = CutStart
    /\ conf = ConfStart
    /\ rt = RetryStart(DefaultRetryDelay)
    /\ pr = ParseStart(<<>>, 1)
    /\ eq = EqNone
    /\ cf = CfgNone

\* The list of the run that just returned, kept for the next run on the
\* same instance when every element of it is a non-empty text and a
\* cache_key_callback is in use (otherwise the empty list).
PrevResults ==
    IF /\ phase = "returned"
       /\ use_cache_key
       /\ \A i \in 1..Len(final_results) : final_results[i] \in ParsedValues
    THEN final_results ELSE <<>>

\* Every item's key is in the cache (and a cache_key_callback is in use).
Warm == use_cache_key /\ \A i \in 1..N : get_cache_key(items[i]) \in DOMAIN cache

\* ---------------------------------------------------------------- process_batches: start
\* Mutant of StartRunEmpty: the early return is missing and the call goes
\* on to the executor with no batch.
StartRunEmptyNoReturn ==
    /\ phase \in {"idle", "returned"}
    /\ N = 0
    /\ phase' = "running"
    /\ batch' = <<>>
    /\ UNCHANGED <<config, cache, run_vars, counters, cache_hits>>

\* process_batches on an empty list: "if not all_items: return []".
\* translate_items returns [] as well (line 563).
StartRunEmpty ==
    /\ phase \in {"idle", "returned"}
    /\ N = 0
    /\ phase' = "returned"
    /\ batch' = <<>>
    /\ all_results' = EmptyMap
    /\ final_results' = <<>>
    /\ translations' = <<>>
    /\ progress_log' = <<>>
    /\ net_attempts' = 0
    /\ prompt_calls' = 0
    /\ transport_calls' = 0
    /\ cache_hits' = 0
    /\ got_200' = FALSE
    /\ warm' = Warm
    /\ slot_writes' = EmptyMap
    /\ failed_slots' = {}
    /\ prev_results' = PrevResults
    /\ UNCHANGED <<config, cache>>

\* process_batches lines 231-259: the batches are cut, all_results is
\* preallocated with None and every batch is submitted to the executor.
StartRun ==
    /\ phase \in {"idle", "returned"}
    /\ N > 0
    /\ phase' = "running"
    /\ batch' = [b \in BatchIds |-> QueuedBatch]
    /\ all_results' = [i \in 0..(N - 1) |-> None]
    /\ final_results' = <<>>
    /\ translations' = <<>>
    /\ progress_log' = <<>>
    /\ net_attempts' = 0
    /\ prompt_calls' = 0
    /\ transport_calls' = 0
    /\ cache_hits' = 0
    /\ got_200' = FALSE
    /\ warm' = Warm
    /\ slot_writes' = [i \in 0..(N - 1) |-> 0]
    /\ failed_slots' = {}
    /\ prev_results' = PrevResults
    /\ UNCHANGED <<config, cache>>


\* ---------------------------------------------------------------- the batching loop on its own
\* The batching loop on its own: lists of up to MaxCutItems items (their
\* keys play no part) and batch sizes up to MaxCutBatchSize.
InitBatcher ==
    /\ items \in {[i \in 1..n |-> 1] : n \in 0..MaxCutItems}
    /\ batch_size \in 1..MaxCutBatchSize
    /\ max_workers = 1
    /\ max_retries = DefaultMaxRetries
    /\ use_cache_key = FALSE
    /\ cache = EmptyMap
    /\ phase = "idle"
    /\ batch = <<>>
    /\ all_results = EmptyMap
    /\ final_results = <<>>
    /\ translations = <<>>
    /\ progress_log = <<>>
    /\ net_attempts = 0
    /\ prompt_calls = 0
    /\ transport_calls = 0
    /\ cache_hits = 0
    /\ got_200 = FALSE
    /\ warm = FALSE
    /\ slot_writes = EmptyMap
    /\ failed_slots = {}
    /\ prev_results = <<>>
    /\ cut = CutStart
    /\ conf = ConfStart
    /\ rt = RetryStart(DefaultRetryDelay)
    /\ pr = ParseStart(<<>>, 1)
    /\ eq = EqNone
    /\ cf = CfgNone

\* One iteration of the loop: the slice starting at i is appended and i
\* advances by batch_size (range's step).
CutStep ==
    /\ ~cut.done
    /\ cut.pos < N
    /\ cut' = [cut EXCEPT !.batches = Append(@, Slice(cut.pos, batch_size, N)),
                          !.pos = @ + batch_size]
    /\ UNCHANGED <<items, batch_size, max_workers, max_retries, use_cache_key, cache,
                   phase, batch, run_vars, counters, cache_hits, conf, rt, pr, eq, cf>>

\* range(0, len(all_items), batch_size) is exhausted: total_batches is set.
CutEnd ==
    /\ ~cut.done
    /\ cut.pos >= N
    /\ cut' = [cut EXCEPT !.done = TRUE]
    /\ UNCHANGED <<items, batch_size, max_workers, max_retries, use_cache_key, cache,
                   phase, batch, run_vars, counters, cache_hits, conf, rt, pr, eq, cf>>

NextBatcher == CutStep \/ CutEnd

SpecBatcher == InitBatcher /\ [][NextBatcher]_vars

\* ---------------------------------------------------------------- the retry loop on its own
\* Bounds of the retry loop followed on its own.
MaxRetriesLoop == 4
MaxRetryDelay == 3

InitRetry ==
    /\ max_retries \in 1..MaxRetriesLoop
    /\ rt \in {RetryStart(d) : d \in 1..MaxRetryDelay}
    /\ pr = ParseStart(<<>>, 1)
    /\ eq = EqNone
    /\ cf = CfgNone
    /\ items = <<>>
    /\ batch_size = 1
    /\ max_workers = 1
    /\ use_cache_key = FALSE
    /\ cache = EmptyMap
    /\ phase = "idle"
    /\ batch = <<>>
    /\ all_results = EmptyMap
    /\ final_results = <<>>
    /\ translations = <<>>
    /\ progress_log = <<>>
    /\ net_attempts = 0
    /\ prompt_calls = 0
    /\ transport_calls = 0
    /\ cache_hits = 0
    /\ got_200 = FALSE
    /\ warm = FALSE
    /\ slot_writes = EmptyMap
    /\ failed_slots = {}
    /\ prev_results = <<>>
    /\ cut = CutStart
    /\ conf = ConfStart

retry_rest == <<items, batch_size, max_workers, max_retries, use_cache_key, cache,
                phase, batch, run_vars, counters, cache_hits, cut, conf, pr, eq, cf>>

\* Mutant of TransportExceptionCaught: the loop body has no except clause.
TransportExceptionEscapes == FALSE

\* "except Exception as e" (line 197) catches what session.post, the
\* status test and the extraction of the text raise.
TransportExceptionCaught == TRUE

\* "if attempt < self.max_retries - 1" (line 201)
SleepNeeded(attempt, retries) == attempt < retries - 1

\* Mutant of SleepDuration: the delay grows with the attempt.
SleepDurationBackoff(attempt, delay) == delay * (attempt + 1)

\* time.sleep(self.retry_delay) (line 202)
SleepDuration(attempt, delay) == delay

\* Mutant of LoopContinues: one attempt more than max_retries.
LoopContinuesOneMore(attempt, retries) == attempt <= retries

\* "for attempt in range(self.max_retries)" (line 170)
LoopContinues(attempt, retries) == attempt < retries

\* One pass through the try block (lines 171-198): the post is made; a 200
\* response returns its stripped text, possibly empty; another status or
\* an exception leads to the end of the loop body.
RetryAttempt ==
    /\ rt.pc = "try"
    /\ LoopContinues(rt.attempt, max_retries)
    /\ \E o \in Outcomes :
         rt' = [rt EXCEPT
                  !.log = Append(@, <<"post", o>>),
                  !.response = IF o \in {"text", "empty"} THEN o ELSE @,
                  !.pc = IF o \in {"text", "empty"} THEN "returned"
                         ELSE IF o \in {"exception", "malformed"} /\ ~TransportExceptionCaught
                              THEN "raised"
                         ELSE "tail"]
    /\ UNCHANGED retry_rest

\* The end of the loop body (lines 200-202): the sleep unless this was the
\* last attempt, then the next value of attempt.
RetryTail ==
    /\ rt.pc = "tail"
    /\ rt' = [rt EXCEPT
                 !.log = IF SleepNeeded(rt.attempt, max_retries)
                         THEN Append(@, <<"sleep", SleepDuration(rt.attempt, rt.delay)>>)
                         ELSE @,
                 !.attempt = @ + 1,
                 !.pc = "try"]
    /\ UNCHANGED retry_rest

\* The loop is exhausted (lines 204-205): return None.
RetryExhausted ==
    /\ rt.pc = "try"
    /\ ~LoopContinues(rt.attempt, max_retries)
    /\ rt' = [rt EXCEPT !.response = "None", !.pc = "returned"]
    /\ UNCHANGED retry_rest

NextRetry == RetryAttempt \/ RetryTail \/ RetryExhausted

SpecRetry == InitRetry /\ [][NextRetry]_vars

\* ---------------------------------------------------------------- construction on its own
\* A config.py that may be absent or lack any of the names, and a
\* batch_size argument (0 stands for None).
InitConf ==
    /\ conf \in [module : BOOLEAN, names : SUBSET FactoryNames,
                  arg : 0..MaxBatchSize, outcome : {"none"}, size : {0}]
    /\ items = <<>>
    /\ batch_size = 1
    /\ max_workers = 1
    /\ max_retries = DefaultMaxRetries
    /\ use_cache_key = FALSE
    /\ cache = EmptyMap
    /\ phase = "idle"
    /\ batch = <<>>
    /\ all_results = EmptyMap
    /\ final_results = <<>>
    /\ translations = <<>>
    /\ progress_log = <<>>
    /\ net_attempts = 0
    /\ prompt_calls = 0
    /\ transport_calls = 0
    /\ cache_hits = 0
    /\ got_200 = FALSE
    /\ warm = FALSE
    /\ slot_writes = EmptyMap
    /\ failed_slots = {}
    /\ prev_results = <<>>
    /\ cut = CutStart
    /\ rt = RetryStart(DefaultRetryDelay)
    /\ pr = ParseStart(<<>>, 1)
    /\ eq = EqNone
    /\ cf = CfgNone

conf_rest == <<items, batch_size, max_workers, max_retries, use_cache_key, cache,
               phase, batch, run_vars, counters, cache_hits, cut, rt, pr, eq, cf>>

\* The batch size config.py gives when it defines BATCH_SIZE.
ConfiguredBatchSize == MaxBatchSize

\* create_batch_translator (lines 616-641): on ImportError the message is
\* printed and exit(1) ends the process; otherwise the translator is built
\* with the argument's batch size or the configured one.
CreateBatchTranslator ==
    /\ conf.outcome = "none"
    /\ conf' = IF ImportFails(conf, FactoryNames)
               THEN [conf EXCEPT !.outcome = "exit"]
               ELSE [conf EXCEPT !.outcome = "translator",
                                 !.size = IF conf.arg = 0 THEN ConfiguredBatchSize
                                                          ELSE conf.arg]
    /\ UNCHANGED conf_rest

\* Loading translate_optimized (lines 17-28): on ImportError exit(1),
\* otherwise the module is loaded.
LoadTranslateOptimized ==
    /\ conf.outcome = "none"
    /\ conf' = IF ImportFails(conf, LegacyNames)
               THEN [conf EXCEPT !.outcome = "exit"]
               ELSE [conf EXCEPT !.outcome = "loaded"]
    /\ UNCHANGED conf_rest

NextConf == CreateBatchTranslator \/ LoadTranslateOptimized

SpecConf == InitConf /\ [][NextConf]_vars

\* ---------------------------------------------------------------- the response parser on its own
\* The longest response_text followed and the largest len(items).
MaxTextLen == 5
MaxReq == 2
Texts == UNION {[1..k -> Chars] : k \in 0..MaxTextLen}

InitParser ==
    /\ max_retries = DefaultMaxRetries
    /\ rt = RetryStart(DefaultRetryDelay)
    /\ pr \in {ParseStart(text, n) : text \in Texts, n \in 1..MaxReq}
    /\ eq = EqNone
    /\ cf = CfgNone
    /\ items = <<>>
    /\ batch_size = 1
    /\ max_workers = 1
    /\ use_cache_key = FALSE
    /\ cache = EmptyMap
    /\ phase = "idle"
    /\ batch = <<>>
    /\ all_results = EmptyMap
    /\ final_results = <<>>
    /\ translations = <<>>
    /\ progress_log = <<>>
    /\ net_attempts = 0
    /\ prompt_calls = 0
    /\ transport_calls = 0
    /\ cache_hits = 0
    /\ got_200 = FALSE
    /\ warm = FALSE
    /\ slot_writes = EmptyMap
    /\ failed_slots = {}
    /\ prev_results = <<>>
    /\ cut = CutStart
    /\ conf = ConfStart

parse_rest == <<items, batch_size, max_workers, max_retries, use_cache_key, cache,
                phase, batch, run_vars, counters, cache_hits, cut, conf, rt, eq, cf>>

\* Lines 525-534: the text is stripped and split and the first loop runs.
ParseTier1 ==
    /\ pr.pc = "tier1"
    /\ LET lines == Split(Strip(pr.text)) IN
         pr' = [pr EXCEPT !.lines = lines,
                          !.tier1 = Tier1(lines, pr.n),
                          !.translations = Tier1(lines, pr.n),
                          !.pc = "check"]
    /\ UNCHANGED parse_rest

\* Lines 537-548: the first loop's dict is thrown away and the second loop
\* runs; then the dict is returned.
ParseTier2 ==
    /\ pr.pc = "check"
    /\ Tier2Needed(pr.translations, pr.n)
    /\ pr' = [pr EXCEPT !.translations = Tier2(pr.lines, pr.n),
                        !.tier = 2, !.pc = "returned"]
    /\ UNCHANGED parse_rest

\* Lines 537 and 550: the condition is false, the first loop's dict is
\* returned.
ParseReturn ==
    /\ pr.pc = "check"
    /\ ~Tier2Needed(pr.translations, pr.n)
    /\ pr' = [pr EXCEPT !.tier = 1, !.pc = "returned"]
    /\ UNCHANGED parse_rest

NextParser == ParseTier1 \/ ParseTier2 \/ ParseReturn

SpecParser == InitParser /\ [][NextParser]_vars

\* ---------------------------------------------------------------- AITranslator beside the legacy BatchTranslator
\* Both translators are run on the same items, from the same cache, batch
\* after batch in submission order, and each batch gets the same answer of
\* the transport in both. The client is built with max_retries = 1, so a
\* batch makes one attempt in both.

\* The answer to the attempt of a batch: what the attempt meets and, for a
\* 200 response with a text, what the parser (the same function in both
\* translators) makes of its lines: line j is the empty string (0) or the
\* n-th text for the j-th requested item.
Answers ==
    {[kind |-> k, lines |-> <<0>>] : k \in Outcomes \ {"text"}}
        \cup {[kind |-> "text", lines |-> l] :
                 l \in UNION {[1..n -> 0..NumVariants] : n \in 1..MaxBatchSize}}

\* The dict the parser returns for the requested items: an entry for each
\* of the first min(lines, items) positions.
ParsedFor(requested, lines) ==
    [j \in 0..(Min(Len(lines), Len(requested)) - 1) |->
        IF lines[j + 1] = 0 THEN EmptyStr
        ELSE Parsed(get_cache_key(requested[j + 1]), lines[j + 1])]

\* The cache check of a batch (ai_translator.py lines 97-107, and the same
\* loop in translate_optimized.py lines 181-191) from item i on.
RECURSIVE PartitionFrom(_, _, _, _)
PartitionFrom(c, its, i, acc) ==
    IF i > Len(its) THEN acc
    ELSE LET key == get_cache_key(its[i]) IN
         PartitionFrom(c, its, i + 1,
             IF key \in DOMAIN c
             THEN [acc EXCEPT !.cached = Put(@, i - 1, c[key])]
             ELSE [acc EXCEPT !.items = Append(@, its[i]),
                              !.indices = Append(@, i - 1)])
CachePartition(c, its) ==
    PartitionFrom(c, its, 1, [cached |-> EmptyMap, items |-> <<>>, indices |-> <<>>])

\* The map with None (or the en_value) for every remaining index.
WithNone(part) ==
    [x \in DOMAIN part.cached \cup {part.indices[j] : j \in 1..Len(part.indices)} |->
        IF x \in DOMAIN part.cached THEN part.cached[x] ELSE None]
WithOriginals(part) ==
    LET pos(x) == CHOOSE j \in 1..Len(part.indices) : part.indices[j] = x IN
    [x \in DOMAIN part.cached \cup {part.indices[j] : j \in 1..Len(part.indices)} |->
        IF x \in DOMAIN part.cached THEN part.cached[x]
        ELSE en_value(part.items[pos(x)])]

\* AIClient.process_batch, merge loop (lines 133-144) from entry j on.
RECURSIVE NewMergeFrom(_, _, _, _)
NewMergeFrom(parsed, part, j, acc) ==
    IF j \notin DOMAIN parsed THEN acc
    ELSE IF ~(j < Len(part.indices)) THEN NewMergeFrom(parsed, part, j + 1, acc)
    ELSE IF parsed[j] = None THEN NewMergeFrom(parsed, part, j + 1, acc)
    ELSE NewMergeFrom(parsed, part, j + 1,
            [results |-> Put(acc.results, part.indices[j + 1], parsed[j]),
             cache |-> Put(acc.cache, get_cache_key(part.items[j + 1]), parsed[j])])

\* AIClient.process_batch (lines 73-146) with AITranslator's callbacks and
\* one attempt: the map returned and the cache afterwards.
NewProcessBatch(c, its, answer) ==
    LET part == CachePartition(c, its) IN
    IF part.items = <<>> THEN [results |-> part.cached, cache |-> c]
    ELSE IF answer.kind # "text" THEN [results |-> WithNone(part), cache |-> c]
    ELSE NewMergeFrom(ParsedFor(part.items, answer.lines), part, 0,
                      [results |-> part.cached, cache |-> c])

\* BatchTranslator.translate_batch, merge loop (translate_optimized.py
\* lines 240-256) from entry j on: "if translation:" keeps a non-empty
\* text only, an empty one gives the en_value and no cache entry.
RECURSIVE LegacyMergeFrom(_, _, _, _)
LegacyMergeFrom(parsed, part, j, acc) ==
    IF j \notin DOMAIN parsed THEN acc
    ELSE IF ~(j < Len(part.indices)) THEN LegacyMergeFrom(parsed, part, j + 1, acc)
    ELSE IF parsed[j] \notin {None, EmptyStr}
    THEN LegacyMergeFrom(parsed, part, j + 1,
            [results |-> Put(acc.results, part.indices[j + 1], parsed[j]),
             cache |-> Put(acc.cache, get_cache_key(part.items[j + 1]), parsed[j])])
    ELSE LegacyMergeFrom(parsed, part, j + 1,
            [results |-> Put(acc.results, part.indices[j + 1],
                             en_value(part.items[j + 1])),
             cache |-> acc.cache])

\* BatchTranslator.translate_batch (translate_optimized.py lines 177-271):
\* an exception or another status gives the en_value of every remaining
\* item; a 200 response is parsed, also when its text is "" (the parser
\* then returns {0: ""}).
LegacyTranslateBatch(c, its, answer) ==
    LET part == CachePartition(c, its) IN
    IF part.items = <<>> THEN [results |-> part.cached, cache |-> c]
    ELSE IF answer.kind \in {"exception", "status", "malformed"}
    THEN [results |-> WithOriginals(part), cache |-> c]
    ELSE LegacyMergeFrom(ParsedFor(part.items, answer.lines), part, 0,
                         [results |-> part.cached, cache |-> c])

\* The collection of a batch's map into the result list (ai_translator.py
\* lines 267-270, translate_optimized.py lines 307-310).
Collected(all, start, results) ==
    [a \in DOMAIN all |->
        IF (a - start) \in DOMAIN results THEN results[a - start] ELSE all[a]]

\* The last loop of both translate_items: None becomes the en_value.
Finalized(all) ==
    [i \in 1..N |-> IF all[i - 1] = None THEN en_value(items[i]) ELSE all[i - 1]]

\* Both translators before the first batch, with the cache c.
EqStart(c) ==
    [pc |-> "run", b |-> 0, empties |-> FALSE,
     new |-> [cache |-> c, all |-> [i \in 0..(N - 1) |-> None], final |-> <<>>],
     legacy |-> [cache |-> c, all |-> [i \in 0..(N - 1) |-> None], final |-> <<>>]]

InitLegacy ==
    /\ items \in ItemLists
    /\ batch_size \in 1..MaxBatchSize
    /\ max_workers = 1
    /\ max_retries = 1
    /\ use_cache_key = TRUE
    /\ cache = EmptyMap
    /\ phase = "idle"
    /\ batch = <<>>
    /\ all_results = EmptyMap
    /\ final_results = <<>>
    /\ translations = <<>>
    /\ progress_log = <<>>
    /\ net_attempts = 0
    /\ prompt_calls = 0
    /\ transport_calls = 0
    /\ cache_hits = 0
    /\ got_200 = FALSE
    /\ warm = FALSE
    /\ slot_writes = EmptyMap
    /\ failed_slots = {}
    /\ prev_results = <<>>
    /\ cut = CutStart
    /\ conf = ConfStart
    /\ rt = RetryStart(DefaultRetryDelay)
    /\ pr = ParseStart(<<>>, 1)
    /\ eq \in {EqStart(c) : c \in FilledCaches}
    /\ cf = CfgNone

eq_rest == <<items, batch_size, max_workers, max_retries, use_cache_key, cache,
             phase, batch, run_vars, counters, cache_hits, cut, conf, rt, pr, cf>>

\* The items of the batch with index b.
EqBatchItems(b) == [j \in 1..BatchLen(N, b, batch_size) |-> ItemAt(b, j - 1)]

\* The next batch is processed by both translators with the same answer,
\* and its map is collected.
EqBatch ==
    /\ eq.pc = "run"
    /\ eq.b < T
    /\ \E answer \in Answers :
         LET its == EqBatchItems(eq.b)
             start == StartIdx(eq.b, batch_size)
             n == NewProcessBatch(eq.new.cache, its, answer)
             l == LegacyTranslateBatch(eq.legacy.cache, its, answer)
         IN  eq' = [eq EXCEPT
                      !.b = @ + 1,
                      !.empties = @ \/ (answer.kind = "text"
                                        /\ \E j \in 1..Len(answer.lines) :
                                              answer.lines[j] = 0),
                      !.new = [@ EXCEPT !.cache = n.cache,
                                        !.all = Collected(@, start, n.results)],
                      !.legacy = [@ EXCEPT !.cache = l.cache,
                                           !.all = Collected(@, start, l.results)]]
    /\ UNCHANGED eq_rest

\* Every batch is collected: both translate_items return their lists.
EqReturn ==
    /\ eq.pc = "run"
    /\ eq.b >= T
    /\ eq' = [eq EXCEPT !.pc = "returned",
                        !.new = [@ EXCEPT !.final = Finalized(eq.new.all)],
                        !.legacy = [@ EXCEPT !.final = Finalized(eq.legacy.all)]]
    /\ UNCHANGED eq_rest

NextLegacy == EqBatch \/ EqReturn

SpecLegacy == InitLegacy /\ [][NextLegacy]_vars

\* ---------------------------------------------------------------- cfg_io.update_cfg_file
\* A .cfg file is followed line by line. A line is blank, a section header
\* "[s]", or a key line "k=v" or "##k=v" (commented out).
MaxCfgLines == 4
MaxUpdates == 2
CfgSections == {"A", "B"}
CfgKeys == {"k1", "k2"}

BlankLine == [t |-> "blank", s |-> "", k |-> "", v |-> 0, c |-> FALSE]
HeaderLine(sec) == [t |-> "header", s |-> sec, k |-> "", v |-> 0, c |-> FALSE]
\* f"{key}={value}\n" and f"##{key}={value}\n"
KeyLine(key, value, commented) ==
    [t |-> "key", s |-> "", k |-> key, v |-> value, c |-> commented]

CfgLineKinds ==
    {BlankLine} \cup {HeaderLine(sec) : sec \in CfgSections}
        \cup {KeyLine(key, 0, c) : key \in CfgKeys, c \in BOOLEAN}
CfgFiles == UNION {[1..n -> CfgLineKinds] : n \in 0..MaxCfgLines}

\* parse_cfg_file (lines 44-80) from line i on (1-based here; the index
\* holds the 0-based line numbers of enumerate): a header sets the current
\* section, a key line under a section is recorded, a commented one also
\* in commented_keys.
RECURSIVE ParseCfgFrom(_, _, _, _)
ParseCfgFrom(lines, i, current, acc) ==
    IF i > Len(lines) THEN acc
    ELSE LET line == lines[i] IN
         IF line.t = "header"
         THEN ParseCfgFrom(lines, i + 1, line.s,
                           [acc EXCEPT !.sections = @ \cup {line.s}])
         ELSE IF line.t = "key" /\ current # ""
         THEN ParseCfgFrom(lines, i + 1, current,
                  [acc EXCEPT
                     !.index = Put(@, <<current, line.k>>, i - 1),
                     !.commented = IF line.c THEN @ \cup {<<current, line.k>>} ELSE @])
         ELSE ParseCfgFrom(lines, i + 1, current, acc)
ParseCfg(lines) ==
    ParseCfgFrom(lines, 1, "", [sections |-> {}, commented |-> {}, index |-> EmptyMap])

\* update_cfg_file called with what parse_cfg_file returned for the file.
CfgStart(lines) ==
    LET parsed == ParseCfg(lines) IN
    [pc |-> "loop", done |-> 0, file |-> lines, new_lines |-> lines,
     cfg_sections |-> parsed.sections, cfg_commented |-> parsed.commented,
     cfg_key_indices |-> parsed.index,
     last |-> [kind |-> "none", section |-> "", key |-> "", value |-> 0,
               is_commented |-> FALSE]]

\* list.insert(pos, x) for a 0-based pos
InsertAt(seq, pos, x) == SubSeq(seq, 1, pos) \o <<x>> \o SubSeq(seq, pos + 1, Len(seq))

\* The rebuilding of the key index after an insertion (lines 239-253): the
\* index is cleared and every key line of the file is recorded under the
\* section of the update, a commented one also in cfg_commented.
RECURSIVE ReindexFrom(_, _, _, _)
ReindexFrom(lines, i, section, acc) ==
    IF i > Len(lines) THEN acc
    ELSE IF lines[i].t = "key"
    THEN ReindexFrom(lines, i + 1, section,
            [index |-> Put(acc.index, <<section, lines[i].k>>, i - 1),
             commented |-> IF lines[i].c THEN acc.commented \cup {<<section, lines[i].k>>}
                           ELSE acc.commented])
    ELSE ReindexFrom(lines, i + 1, section, acc)

\* The updates of a call: (section, key, value, is_commented); the value
\* of the n-th update of the list is n.
UpdatesAt(n) ==
    [kind : {"update"}, section : CfgSections, key : CfgKeys, value : {n},
     is_commented : BOOLEAN]

cfg_rest == <<items, batch_size, max_workers, max_retries, use_cache_key, cache,
              phase, batch, run_vars, counters, cache_hits, cut, conf, rt, pr, eq>>

\* The loop body for a key found in the index (lines 161-174): the line
\* the index names is rewritten, commented if the key is in cfg_commented.
CfgRewrite ==
    /\ cf.pc = "loop"
    /\ cf.done < MaxUpdates
    /\ \E u \in UpdatesAt(cf.done + 1) :
         /\ <<u.section, u.key>> \in DOMAIN cf.cfg_key_indices
         /\ LET line_num == cf.cfg_key_indices[<<u.section, u.key>>]
                is_commented_in_file == <<u.section, u.key>> \in cf.cfg_commented
            IN  cf' = [cf EXCEPT
                         !.new_lines = [@ EXCEPT ![line_num + 1] =
                                           KeyLine(u.key, u.value, is_commented_in_file)],
                         !.done = @ + 1,
                         !.last = u]
    /\ UNCHANGED cfg_rest

\* The loop body for a key of a section that is not in cfg_sections
\* (lines 178-205): a blank line unless the file ends with one, the header
\* and the key line are appended, and the key is indexed.
CfgAddSection ==
    /\ cf.pc = "loop"
    /\ cf.done < MaxUpdates
    /\ \E u \in UpdatesAt(cf.done + 1) :
         /\ <<u.section, u.key>> \notin DOMAIN cf.cfg_key_indices
         /\ u.section \notin cf.cfg_sections
         /\ LET spaced == IF cf.new_lines # <<>>
                             /\ cf.new_lines[Len(cf.new_lines)].t # "blank"
                          THEN Append(cf.new_lines, BlankLine) ELSE cf.new_lines
                lines == spaced \o <<HeaderLine(u.section),
                                     KeyLine(u.key, u.value, u.is_commented)>>
            IN  cf' = [cf EXCEPT
                         !.new_lines = lines,
                         !.cfg_sections = @ \cup {u.section},
                         !.cfg_key_indices = Put(@, <<u.section, u.key>>, Len(lines) - 1),
                         !.done = @ + 1,
                         !.last = u]
    /\ UNCHANGED cfg_rest

\* The loop body for a new key of a section in cfg_sections (lines
\* 206-255): the key line is inserted before the next header after the
\* section's first header (after a blank line unless one is there), and the
\* index is rebuilt.
CfgInsertKey ==
    /\ cf.pc = "loop"
    /\ cf.done < MaxUpdates
    /\ \E u \in UpdatesAt(cf.done + 1) :
         /\ <<u.section, u.key>> \notin DOMAIN cf.cfg_key_indices
         /\ u.section \in cf.cfg_sections
         /\ LET L == cf.new_lines
                starts == {i \in 1..Len(L) : L[i] = HeaderLine(u.section)}
            IN  IF starts = {}
                THEN cf' = [cf EXCEPT !.done = @ + 1, !.last = u]
                ELSE LET section_start == (CHOOSE i \in starts : \A j \in starts : i <= j) - 1
                         ends == {i \in (section_start + 1)..(Len(L) - 1) :
                                     L[i + 1].t = "header"}
                         section_end == IF ends = {} THEN Len(L)
                                        ELSE CHOOSE i \in ends : \A j \in ends : i <= j
                         spaced == IF section_end > 0 /\ L[section_end].t # "blank"
                                   THEN InsertAt(L, section_end, BlankLine) ELSE L
                         insert_pos == IF spaced = L THEN section_end ELSE section_end + 1
                         lines == InsertAt(spaced, insert_pos,
                                           KeyLine(u.key, u.value, u.is_commented))
                         re == ReindexFrom(lines, 1, u.section,
                                           [index |-> EmptyMap,
                                            commented |-> cf.cfg_commented])
                     IN  cf' = [cf EXCEPT
                                  !.new_lines = lines,
                                  !.cfg_key_indices = re.index,
                                  !.cfg_commented = re.commented,
                                  !.done = @ + 1,
                                  !.last = u]
    /\ UNCHANGED cfg_rest

\* The list of updates is exhausted: the lines are written (lines 257-261).
CfgWrite ==
    /\ cf.pc = "loop"
    /\ cf' = [cf EXCEPT !.pc = "written", !.file = cf.new_lines]
    /\ UNCHANGED cfg_rest

InitCfg ==
    /\ cf \in {CfgStart(lines) : lines \in CfgFiles}
    /\ items = <<>>
    /\ batch_size = 1
    /\ max_workers = 1
    /\ max_retries = DefaultMaxRetries
    /\ use_cache_key = FALSE
    /\ cache = EmptyMap
    /\ phase = "idle"
    /\ batch = <<>>
    /\ all_results = EmptyMap
    /\ final_results = <<>>
    /\ translations = <<>>
    /\ progress_log = <<>>
    /\ net_attempts = 0
    /\ prompt_calls = 0
    /\ transport_calls = 0
    /\ cache_hits = 0
    /\ got_200 = FALSE
    /\ warm = FALSE
    /\ slot_writes = EmptyMap
    /\ failed_slots = {}
    /\ prev_results = <<>>
    /\ cut = CutStart
    /\ conf = ConfStart
    /\ rt = RetryStart(DefaultRetryDelay)
    /\ pr = ParseStart(<<>>, 1)
    /\ eq = EqNone

NextCfg == CfgRewrite \/ CfgAddSection \/ CfgInsertKey \/ CfgWrite

SpecCfg == InitCfg /\ [][NextCfg]_vars

\* ---------------------------------------------------------------- process_batch (worker)
\* Mutant of PoolSize: the executor has one thread more than configured.
PoolSizeOneMore == max_workers + 1

\* The number of worker threads the executor may run at once.
PoolSize == max_workers

\* A free worker of the ThreadPoolExecutor takes the oldest submitted batch
\* and enters process_batch. Without a cache_key_callback every item is
\* remaining (lines 108-110).
Take(b) ==
    /\ phase = "running"
    /\ batch[b].st = "queued"
    /\ \A c \in BatchIds : c < b => batch[c].st # "queued"
    /\ Cardinality({c \in BatchIds : Running(c)}) < PoolSize
    /\ batch' = [batch EXCEPT ![b] =
          IF use_cache_key
          THEN [@ EXCEPT !.st = "lookup"]
          ELSE [@ EXCEPT !.st = "request",
                         !.remaining_items =
                             [j \in 1..BatchLen(N, b, batch_size) |-> ItemAt(b, j - 1)],
                         !.remaining_indices =
                             [j \in 1..BatchLen(N, b, batch_size) |-> j - 1]]]
    /\ UNCHANGED <<config, cache, phase, run_vars, counters, cache_hits>>

\* Mutant of AfterLookup: the early return for an empty remaining list is
\* missing.
AfterLookupAlwaysRequest(rec, len) ==
    IF rec.i < len THEN rec ELSE [rec EXCEPT !.st = "request"]

\* What the lookup loop leaves when it ends (lines 112-114): with nothing
\* remaining process_batch returns the cached results, else it goes on to
\* the request.
AfterLookup(rec, len) ==
    IF rec.i < len THEN rec
    ELSE IF rec.remaining_indices = <<>>
    THEN [rec EXCEPT !.st = "done", !.results = rec.cached_results]
    ELSE [rec EXCEPT !.st = "request"]

\* Mutant of LookupStep: the cache is not consulted.
LookupStepAlwaysMiss(rec, item, key) ==
    [rec EXCEPT !.remaining_items = Append(@, item),
                !.remaining_indices = Append(@, rec.i), !.i = @ + 1]

\* Mutant of LookupStep: an item that hit the cache is still put among the
\* items to request.
LookupStepKeepsHit(rec, item, key) ==
    IF key \in DOMAIN cache
    THEN [rec EXCEPT !.cached_results = Put(@, rec.i, cache[key]),
                     !.remaining_items = Append(@, item), !.i = @ + 1]
    ELSE [rec EXCEPT !.remaining_items = Append(@, item),
                     !.remaining_indices = Append(@, rec.i), !.i = @ + 1]

\* One iteration of the cache check (lines 101-107) for item i of the batch.
LookupStep(rec, item, key) ==
    IF key \in DOMAIN cache
    THEN [rec EXCEPT !.cached_results = Put(@, rec.i, cache[key]), !.i = @ + 1]
    ELSE [rec EXCEPT !.remaining_items = Append(@, item),
                     !.remaining_indices = Append(@, rec.i), !.i = @ + 1]

Lookup(b) ==
    /\ phase = "running"
    /\ batch[b].st = "lookup"
    /\ batch' = [batch EXCEPT ![b] =
          AfterLookup(LookupStep(@, ItemAt(b, @.i), get_cache_key(ItemAt(b, @.i))),
                      BatchLen(N, b, batch_size))]
    /\ cache_hits' = cache_hits + Cardinality(DOMAIN batch'[b].cached_results)
                                 - Cardinality(DOMAIN batch[b].cached_results)
    /\ UNCHANGED <<config, cache, phase, run_vars, counters>>

\* cache_key_callback raises in the lookup loop: the exception leaves
\* process_batch and is stored in the future.
LookupRaises(b) ==
    /\ phase = "running"
    /\ batch[b].st = "lookup"
    /\ batch' = [batch EXCEPT ![b].st = "failed"]
    /\ UNCHANGED <<config, cache, phase, run_vars, counters, cache_hits>>

\* The outcomes of the attempts of one _send_request_with_retry call.
OutcomeSeqs == [1..max_retries -> Outcomes]

\* prompt_callback raises (line 117): the exception leaves process_batch.
RequestPromptRaises(b) ==
    /\ phase = "running"
    /\ batch[b].st = "request"
    /\ prompt_calls' = prompt_calls + 1
    /\ batch' = [batch EXCEPT ![b] =
          [@ EXCEPT !.st = "failed", !.prompt_items = batch[b].remaining_items]]
    /\ UNCHANGED <<config, cache, phase, run_vars, net_attempts, transport_calls,
                   got_200, cache_hits>>

\* Mutant of FailureResults: the cached results are left out of the map.
FailureResultsNoCached(rec) ==
    [x \in {rec.remaining_indices[j] : j \in 1..Len(rec.remaining_indices)} |-> None]

\* Lines 122-127: the map returned when the request failed: the cached
\* results, and None for every remaining index.
FailureResults(rec) ==
    [x \in DOMAIN rec.cached_results
           \cup {rec.remaining_indices[j] : j \in 1..Len(rec.remaining_indices)} |->
        IF x \in DOMAIN rec.cached_results THEN rec.cached_results[x] ELSE None]

\* The bookkeeping of a request in the batch record: the list the prompt
\* builder was called with (line 117) and the transport call r (line 120).
Sent(rec, r) ==
    [rec EXCEPT !.attempts = r.attempts, !.sleeps = r.sleeps,
                !.resp_attempt = r.resp_attempt,
                !.prompt_items = rec.remaining_items]

\* Lines 117-127: the prompt is built, the transport gives no text.
RequestFails(b) ==
    /\ phase = "running"
    /\ batch[b].st = "request"
    /\ \E outcomes \in OutcomeSeqs :
         LET r == send_request_with_retry(outcomes, max_retries) IN
           /\ ResponseFailed(r)
           /\ net_attempts' = net_attempts + r.attempts
           /\ got_200' = (got_200 \/ r.response # "None")
           /\ batch' = [batch EXCEPT ![b] =
                 [Sent(@, r) EXCEPT !.st = "done", !.results = FailureResults(batch[b]),
                                    !.transport_failed = TRUE]]
    /\ prompt_calls' = prompt_calls + 1
    /\ transport_calls' = transport_calls + 1
    /\ UNCHANGED <<config, cache, phase, run_vars, cache_hits>>

\* Lines 117-130: the transport gives a text and result_callback raises.
RequestParserRaises(b) ==
    /\ phase = "running"
    /\ batch[b].st = "request"
    /\ \E outcomes \in OutcomeSeqs :
         LET r == send_request_with_retry(outcomes, max_retries) IN
           /\ ~ResponseFailed(r)
           /\ net_attempts' = net_attempts + r.attempts
           /\ got_200' = TRUE
           /\ batch' = [batch EXCEPT ![b] = [Sent(@, r) EXCEPT !.st = "failed"]]
    /\ prompt_calls' = prompt_calls + 1
    /\ transport_calls' = transport_calls + 1
    /\ UNCHANGED <<config, cache, phase, run_vars, cache_hits>>

\* ---------------------------------------------------------------- result_callback
\* No entry for an index.
Absent == <<0, 3>>

\* What a parser may return for the item at position j of the remaining list:
\* no entry, None, "" or one of the texts for that item.
EntryChoices(b, rec, j) ==
    {Absent, None, EmptyStr}
        \cup {Parsed(get_cache_key(rec.remaining_items[j + 1]), n) :
                n \in 1..NumVariants}

\* The dict entries <<index, value>> of the chosen in-range values, in
\* index order.
RECURSIVE EntriesOf(_, _, _)
EntriesOf(f, j, m) ==
    IF j >= m THEN <<>>
    ELSE (IF f[j] = Absent THEN <<>> ELSE << <<j, f[j]>> >>) \o EntriesOf(f, j + 1, m)

\* One further entry a parser may return under an index that is too large
\* for the remaining list.
TooLargeEntries(b, rec) ==
    { <<>>, << <<Len(rec.remaining_indices), Stray>> >> }

\* One further entry a parser may return under a negative index: -1, which
\* Python indexing resolves to the last remaining item (so the text is one
\* for that item), and -(m + 1), which no list position answers to.
NegativeEntries(b, rec) ==
    LET m == Len(rec.remaining_indices) IN
    { << <<-1, Parsed(get_cache_key(rec.remaining_items[m]), NumVariants)>> >>,
      << <<-(m + 1), Stray>> >> }

\* The dicts result_callback may return for the remaining items of batch b:
\* a choice for every remaining position, then one of the further entries.
ParserOutputs(b, rec, further) ==
    LET m == Len(rec.remaining_indices)
        AllChoices == UNION {EntryChoices(b, rec, j) : j \in 0..(m - 1)}
    IN  {EntriesOf(f, 0, m) \o s :
            f \in {g \in [0..(m - 1) -> AllChoices] :
                      \A j \in 0..(m - 1) : g[j] \in EntryChoices(b, rec, j)},
            s \in further}

\* Lines 117-133: the transport gives a text, the parser returns one of the
\* dicts outs and all_results starts as a copy of the cached results.
RequestParsedFrom(b, outs) ==
    /\ phase = "running"
    /\ batch[b].st = "request"
    /\ \E outcomes \in OutcomeSeqs :
         LET r == send_request_with_retry(outcomes, max_retries) IN
           /\ ~ResponseFailed(r)
           /\ net_attempts' = net_attempts + r.attempts
           /\ got_200' = TRUE
           /\ \E out \in outs :
                batch' = [batch EXCEPT ![b] =
                    [Sent(@, r) EXCEPT !.st = IF out = <<>> THEN "done" ELSE "merge",
                                       !.batch_results = out,
                                       !.results = batch[b].cached_results]]
    /\ prompt_calls' = prompt_calls + 1
    /\ transport_calls' = transport_calls + 1
    /\ UNCHANGED <<config, cache, phase, run_vars, cache_hits>>

\* The parser returns indices >= 0 only.
RequestParsed(b) ==
    RequestParsedFrom(b, ParserOutputs(b, batch[b], TooLargeEntries(b, batch[b])))

\* The parser returns a negative index as well.
RequestParsedNegative(b) ==
    RequestParsedFrom(b, ParserOutputs(b, batch[b], NegativeEntries(b, batch[b])))

\* ---------------------------------------------------------------- merge (lines 134-146)
\* "if idx_in_remaining < len(remaining_indices)" (line 135)
EntryApplies(rec, idx) == idx < Len(rec.remaining_indices)
\* remaining_indices[idx_in_remaining] raises IndexError
IndexErrorAt(rec, idx) == idx < -Len(rec.remaining_indices)
\* "if result is not None" (line 139)
ResultKept(result) == result # None
\* Mutant of CacheWrite: the value is stored under another item's key.
CacheWriteWrongKey(c, key, result) == Put(c, (key % NumKeys) + 1, result)

\* The value stored under the cache key (line 144).
CacheWrite(c, key, result) == Put(c, key, result)

\* Mutant of CacheUpdate: the cache is written without a
\* cache_key_callback too.
CacheUpdateAlways(c, key, result) == CacheWrite(c, key, result)

\* "if cache_key_callback:" (lines 142-144): the cache is written only
\* when a cache_key_callback was supplied.
CacheUpdate(c, key, result) ==
    IF use_cache_key THEN CacheWrite(c, key, result) ELSE c

\* The loop moves on to the entries not yet visited; after the last entry
\* process_batch returns.
Advance(rec) ==
    IF Len(rec.batch_results) > 1
    THEN [rec EXCEPT !.batch_results = Tail(@)]
    ELSE [rec EXCEPT !.batch_results = <<>>, !.st = "done"]

\* One iteration of the merge loop for the next entry of batch_results
\* (the record keeps the entries the loop has not visited yet).
Merge(b) ==
    /\ phase = "running"
    /\ batch[b].st = "merge"
    /\ LET rec == batch[b]
           idx == Head(rec.batch_results)[1]
           result == Head(rec.batch_results)[2]
       IN  IF ~EntryApplies(rec, idx)
           THEN /\ batch' = [batch EXCEPT ![b] = Advance(rec)]
                /\ cache' = cache
           ELSE IF IndexErrorAt(rec, idx)
           THEN /\ batch' = [batch EXCEPT ![b].st = "failed"]
                /\ cache' = cache
           ELSE IF ~ResultKept(result)
           THEN /\ batch' = [batch EXCEPT ![b] = Advance(rec)]
                /\ cache' = cache
           ELSE LET original_idx == PyIndex(rec.remaining_indices, idx)
                    item == PyIndex(rec.remaining_items, idx)
                    key == get_cache_key(item)
                IN  /\ batch' = [batch EXCEPT ![b] =
                          Advance([rec EXCEPT
                              !.results = Put(@, original_idx, result),
                              !.writes = IF use_cache_key THEN Append(@, key) ELSE @])]
                    /\ cache' = CacheUpdate(cache, key, result)
    /\ UNCHANGED <<config, phase, run_vars, counters, cache_hits>>

\* cache_key_callback raises at line 143, after the result was stored in
\* all_results (line 140): the exception leaves process_batch.
MergeRaises(b) ==
    /\ phase = "running"
    /\ batch[b].st = "merge"
    /\ use_cache_key
    /\ LET rec == batch[b]
           idx == Head(rec.batch_results)[1]
           result == Head(rec.batch_results)[2]
       IN  /\ EntryApplies(rec, idx)
           /\ ~IndexErrorAt(rec, idx)
           /\ ResultKept(result)
           /\ batch' = [batch EXCEPT ![b] =
                 [rec EXCEPT !.st = "failed",
                             !.results = Put(@, PyIndex(rec.remaining_indices, idx), result)]]
    /\ UNCHANGED <<config, cache, phase, run_vars, counters, cache_hits>>

\* ---------------------------------------------------------------- process_batches: collection
\* Mutant of WriteResults: the relative index is used as the absolute one.
WriteResultsNoStart(ar, b, results) ==
    [a \in DOMAIN ar |-> IF a \in DOMAIN results THEN results[a] ELSE ar[a]]

\* Lines 267-270: each entry of the batch's map goes to start_idx + relative_idx.
WriteResults(ar, b, results) ==
    [a \in DOMAIN ar |->
        IF a - StartIdx(b, batch_size) \in DOMAIN results
        THEN results[a - StartIdx(b, batch_size)] ELSE ar[a]]

\* Lines 280-283: the except branch sets every slot of the batch to None.
WriteNone(ar, b) ==
    [a \in DOMAIN ar |->
        IF /\ a >= StartIdx(b, batch_size)
           /\ a < StartIdx(b, batch_size) + BatchLen(N, b, batch_size)
        THEN None ELSE ar[a]]

\* The slots the loop of lines 267-270 assigns for the map results.
WrittenSlots(b, results) ==
    {a \in DOMAIN all_results : a - StartIdx(b, batch_size) \in DOMAIN results}

\* The assignment counts after one more assignment to each slot of S.
Counted(sw, S) == [a \in DOMAIN sw |-> IF a \in S THEN sw[a] + 1 ELSE sw[a]]

\* The arguments of progress_callback (line 274).
ProgressArgs(b) == <<b + 1, T>>

\* The indices of the batch's items.
BatchSlots(b) ==
    {StartIdx(b, batch_size) + r : r \in 0..(BatchLen(N, b, batch_size) - 1)}
\* The indices of the batch's remaining (cache-miss) items.
RemainingSlots(b) ==
    {StartIdx(b, batch_size) + batch[b].remaining_indices[j] :
        j \in 1..Len(batch[b].remaining_indices)}

\* Mutant of ExceptionCaught: the collection loop has no except branch.
ExceptionNotCaught == FALSE

\* "except Exception" (line 277) catches what the try block raises.
ExceptionCaught == TRUE

\* as_completed yields a future that holds a result map: the map is written
\* to all_results and the progress observer is called and returns.
CollectOk(b) ==
    /\ phase = "running"
    /\ batch[b].st = "done"
    /\ all_results' = WriteResults(all_results, b, batch[b].results)
    /\ progress_log' = Append(progress_log, ProgressArgs(b))
    /\ slot_writes' = Counted(slot_writes, WrittenSlots(b, batch[b].results))
    /\ failed_slots' = failed_slots \cup
          (IF batch[b].transport_failed THEN RemainingSlots(b) ELSE {})
    /\ batch' = [batch EXCEPT ![b] = CollectedBatch]
    /\ UNCHANGED <<config, cache, phase, final_results, translations,
                   prev_results, warm, counters, cache_hits>>

\* As CollectOk, but progress_callback raises inside the try block: the
\* except branch (lines 277-283) runs after the results were written.
ObserverRaised(ar, b) == WriteNone(ar, b)

CollectObserverRaises(b) ==
    /\ phase = "running"
    /\ batch[b].st = "done"
    /\ all_results' = ObserverRaised(WriteResults(all_results, b, batch[b].results), b)
    /\ progress_log' = Append(progress_log, ProgressArgs(b))
    /\ slot_writes' = Counted(Counted(slot_writes, WrittenSlots(b, batch[b].results)),
                              BatchSlots(b))
    /\ failed_slots' = failed_slots \cup BatchSlots(b)
    /\ phase' = IF ExceptionCaught THEN "running" ELSE "raised"
    /\ batch' = [batch EXCEPT ![b] = CollectedBatch]
    /\ UNCHANGED <<config, cache, final_results, translations,
                   prev_results, warm, counters, cache_hits>>

\* Mutant of FutureRaised: the failure wipes the slots of every batch.
FutureRaisedWipesAll(ar, b) == [a \in DOMAIN ar |-> None]

\* as_completed yields a future that holds an exception: future.result()
\* raises it and the except branch runs.
FutureRaised(ar, b) == WriteNone(ar, b)

CollectFailed(b) ==
    /\ phase = "running"
    /\ batch[b].st = "failed"
    /\ all_results' = FutureRaised(all_results, b)
    /\ slot_writes' = Counted(slot_writes, BatchSlots(b))
    /\ failed_slots' = failed_slots \cup BatchSlots(b)
    /\ phase' = IF ExceptionCaught THEN "running" ELSE "raised"
    /\ batch' = [batch EXCEPT ![b] = CollectedBatch]
    /\ UNCHANGED <<config, cache, final_results, translations,
                   progress_log, prev_results, warm, counters, cache_hits>>

\* Mutant of FinalResults: None results are skipped instead of appended.
FinalResultsSkipNone(ar) ==
    SelectSeq([i \in 1..N |-> ar[i - 1]], LAMBDA v : v # None)

\* Lines 285-291: final_results is all_results copied slot by slot.
FinalResults(ar) == [i \in 1..N |-> ar[i - 1]]

\* Mutant of FinalTranslations: None is passed on unreplaced.
FinalTranslationsRaw(fr) == fr

\* Mutant of FinalTranslations: only the first element gets the fallback.
FinalTranslationsFirstOnly(fr) ==
    [i \in 1..Len(fr) |-> IF fr[i] = None /\ i = 1 THEN en_value(items[i]) ELSE fr[i]]

\* translate_items lines 577-585: None becomes the item's en_value.
FinalTranslations(fr) ==
    [i \in 1..Len(fr) |-> IF fr[i] = None THEN en_value(items[i]) ELSE fr[i]]

\* Mutant of LoopExhausted: the collection loop ends after the first future.
LoopExhaustedEarly == \E b \in BatchIds : batch[b].st = "collected"

\* The as_completed loop (line 262) ends when it has yielded every future.
LoopExhausted == \A b \in BatchIds : batch[b].st = "collected"

\* Every future is consumed: the executor is shut down, process_batches
\* returns final_results and translate_items its translations.
Return ==
    /\ phase = "running"
    /\ LoopExhausted
    /\ phase' = "returned"
    /\ final_results' = FinalResults(all_results)
    /\ translations' = FinalTranslations(FinalResults(all_results))
    /\ UNCHANGED <<config, cache, batch, all_results, progress_log,
                   prev_results, warm, slot_writes, failed_slots, counters, cache_hits>>

\* The engine with callbacks that return (as AITranslator's own do) and a
\* parser that returns indices >= 0.
Next ==
    \/ StartRunEmpty
    \/ StartRun
    \/ \E b \in BatchIds : Take(b)
    \/ \E b \in BatchIds : Lookup(b)
    \/ \E b \in BatchIds : RequestFails(b)
    \/ \E b \in BatchIds : RequestParsed(b)
    \/ \E b \in BatchIds : Merge(b)
    \/ \E b \in BatchIds : CollectOk(b)
    \/ Return

Spec == Init /\ [][Next]_vars

\* The engine without a cache_key_callback: the lookup loop (lines 100-107)
\* is never entered.
NextNoKey ==
    \/ StartRunEmpty
    \/ StartRun
    \/ \E b \in BatchIds : Take(b)
    \/ \E b \in BatchIds : RequestFails(b)
    \/ \E b \in BatchIds : RequestParsed(b)
    \/ \E b \in BatchIds : Merge(b)
    \/ \E b \in BatchIds : CollectOk(b)
    \/ Return

SpecNoKey == InitNoKey /\ [][NextNoKey]_vars

\* The engine with arbitrary callbacks: each of them may raise, and the
\* parser may return negative indices.
NextHostile ==
    \/ Next
    \/ \E b \in BatchIds : LookupRaises(b)
    \/ \E b \in BatchIds : RequestPromptRaises(b)
    \/ \E b \in BatchIds : RequestParserRaises(b)
    \/ \E b \in BatchIds : RequestParsedNegative(b)
    \/ \E b \in BatchIds : MergeRaises(b)
    \/ \E b \in BatchIds : CollectObserverRaises(b)
    \/ \E b \in BatchIds : CollectFailed(b)

SpecHostile == Init /\ [][NextHostile]_vars

\* A step of a run in progress: a worker thread or the collection loop of
\* process_batches moves.
RunStep ==
    /\ phase = "running"
    /\ NextHostile

\* The engine under a scheduler that lets a running thread move, with a
\* transport whose every attempt returns or fails (the post carries a
\* timeout, line 176) and callbacks that return or raise. The retry loop
\* is bounded by range(max_retries) and is part of one request step, so the
\* client is built with max_retries = 1 here.
InitFair == Init /\ max_retries = 1

SpecFair == InitFair /\ [][NextHostile]_vars /\ WF_vars(RunStep)

\* ================================================================ claims
KeyOf(i) == get_cache_key(items[i])
\* The values that can be the result of the item at list position i: no
\* result, the empty text, or a text for an item with its key.
ResultsOf(i) == {None, EmptyStr} \cup {Parsed(KeyOf(i), n) : n \in 1..NumVariants}
Fallbacks == [i \in 1..N |-> en_value(items[i])]

\* C1: for every list of N >= 0 items and every batch size >= 1,
\* process_batches and translate_items return a list of exactly N elements,
\* whatever the transport outcomes, parser outputs and completion order.
C1_LengthPreserved ==
    phase = "returned" => Len(final_results) = N /\ Len(translations) = N

\* Two batches, the second completed first, the first failed, the second parsed.
C1_Witness ==
    /\ phase = "returned" /\ N = 2 /\ T = 2
    /\ progress_log = << <<2, 2>>, <<1, 2>> >>
    /\ final_results[1] = None /\ final_results[2] \in ParsedValues

\* C2: element i of the returned list is the result (cached value, parsed
\* value or fallback) of input item i, for every completion order.
C2_InputOrder ==
    phase = "returned" =>
        \A i \in 1..N :
            /\ final_results[i] \in ResultsOf(i)
            /\ translations[i] \in (ResultsOf(i) \ {None}) \cup {en_value(items[i])}

\* Two one-item batches with different keys, the second collected first.
C2_Witness ==
    /\ phase = "returned" /\ items = <<1, 2>> /\ batch_size = 1
    /\ progress_log = << <<2, 2>>, <<1, 2>> >>
    /\ final_results = <<Parsed(1, 1), Parsed(2, 1)>>

\* C3: if every attempt of every batch fails (exception or non-success
\* status) in a run whose cache holds none of the items' keys,
\* translate_items returns normally and its output is, for every item,
\* exactly the item's en_value.
C3_AllFailFallback ==
    /\ phase # "raised"
    /\ (/\ phase = "returned"
        /\ ~got_200
        /\ \A i \in 1..N : KeyOf(i) \notin DOMAIN cache)
       => translations = Fallbacks

\* Two batches whose three attempts each all failed.
C3_Witness ==
    /\ phase = "returned" /\ ~got_200 /\ T = 2 /\ max_retries = DefaultMaxRetries
    /\ net_attempts = T * max_retries
    /\ cache = EmptyMap
    /\ translations = Fallbacks

\* C4: no exception escapes process_batches: when a batch's transport fails
\* or a callback (prompt builder, parser, cache-key function, progress
\* observer) raises, the call still returns a complete list in input order
\* in which every affected item holds its fallback (None).
C4_NoEscape ==
    /\ phase # "raised"
    /\ phase = "returned" =>
          /\ Len(final_results) = N
          /\ \A i \in 1..N : final_results[i] \in ResultsOf(i)
          /\ \A a \in failed_slots : final_results[a + 1] = None

\* One batch failed and was collected first, its sibling delivered a text.
C4_Witness ==
    /\ phase = "returned" /\ T = 2
    /\ failed_slots = {0}
    /\ progress_log = << <<2, 2>> >>
    /\ final_results[2] \in ParsedValues

\* C5: if the cache holds every item's key when a run starts, the run makes
\* no network call, never invokes the prompt builder, and every output
\* element is the cached value of its item.
C5_WarmRunCached ==
    (phase = "returned" /\ warm) =>
        /\ net_attempts = 0
        /\ prompt_calls = 0
        /\ \A i \in 1..N : final_results[i] = cache[KeyOf(i)]

\* A second run over two batches, both answered from the cache.
C5_Witness ==
    /\ phase = "returned" /\ warm /\ T = 2 /\ items = <<1, 2>>
    /\ progress_log = << <<2, 2>>, <<1, 2>> >>
    /\ final_results = <<cache[1], cache[2]>>
    /\ final_results[1] \in ParsedValues

\* With callbacks that may raise, a warm run still makes no network call
\* and never invokes the prompt builder; an element is the cached value of
\* its item unless its batch ended in the except branch of the collection
\* loop.
C5_WarmRunNoNetwork ==
    (phase \in {"running", "returned"} /\ warm) =>
        /\ net_attempts = 0
        /\ prompt_calls = 0
        /\ phase = "returned" =>
              \A i \in 1..N : \/ final_results[i] = cache[KeyOf(i)]
                              \/ (i - 1) \in failed_slots

\* The items of batch b that a running lookup has found in the cache.
Hits(b) == DOMAIN batch[b].cached_results
RemainingOf(rec) == {rec.remaining_indices[j] : j \in 1..Len(rec.remaining_indices)}

\* C6: once an item's key is written to the cache, a batch that looks up an
\* item with the same key afterwards gives it the cached value and does not
\* put it among the items it requests: the lookup step records the cached
\* value and leaves remaining_indices alone, a hit is never a remaining
\* index, a batch without remaining items makes no attempt, and the map
\* process_batch returns holds the cached value at the hit's index.
C6_HitInv ==
    phase \in {"running", "returned"} =>
        \A b \in BatchIds :
            /\ Hits(b) \cap RemainingOf(batch[b]) = {}
            /\ (batch[b].remaining_indices = <<>> => batch[b].attempts = 0)
            /\ (batch[b].st = "done" =>
                    \A i \in Hits(b) : batch[b].results[i] = batch[b].cached_results[i])

C6_HitStep ==
    \A b \in BatchIds :
        (/\ phase = "running"
         /\ batch[b].st = "lookup"
         /\ batch'[b] # batch[b]
         /\ batch'[b].st # "failed"
         /\ get_cache_key(ItemAt(b, batch[b].i)) \in DOMAIN cache)
        => /\ batch[b].i \in DOMAIN batch'[b].cached_results
           /\ batch'[b].cached_results[batch[b].i] =
                  cache[get_cache_key(ItemAt(b, batch[b].i))]
           /\ batch'[b].remaining_indices = batch[b].remaining_indices

C6_CachedReuse == []C6_HitInv /\ [][C6_HitStep]_vars

\* Two one-item batches with the same key in a run that started with an
\* empty cache: the first wrote the key, the second found it and returned
\* without a request.
C6_Witness ==
    /\ phase = "running" /\ T = 2 /\ batch_size = 1 /\ items[1] = items[2]
    /\ ~warm
    /\ batch[0].writes = <<items[1]>>
    /\ batch[1].st = "done"
    /\ 0 \in Hits(1)
    /\ batch[1].results[0] = cache[items[2]]
    /\ batch[1].attempts = 0

\* C7 (as claimed): a cache key, once written by a successful resolution,
\* is never overwritten with a different value by a later successful
\* resolution: no step replaces a non-empty text under cache[k] by another
\* non-empty text.
C7_NeverOverwritten ==
    [][\A k \in DOMAIN cache :
            (cache[k] \in ParsedValues /\ cache'[k] \in ParsedValues)
                => cache'[k] = cache[k]]_vars

\* The values a parse can produce for an item with cache key k.
ProducedFor(k) == {EmptyStr} \cup {Parsed(k, n) : n \in 1..NumVariants}

\* C8: concurrent lookups and writes never corrupt the cache: every cache
\* entry, and every value a lookup returned, is a value a parse produced for
\* an item with that key.
C8_CacheSound ==
    /\ \A k \in DOMAIN cache : cache[k] \in ProducedFor(k)
    /\ phase \in {"running", "returned"} =>
          \A b \in BatchIds : \A i \in Hits(b) :
              batch[b].cached_results[i] \in ProducedFor(get_cache_key(ItemAt(b, i)))

\* Two workers at once: one is inside its merge loop and has written its
\* key, the other has looked up the same key and hit.
C8_Witness ==
    /\ phase = "running" /\ T = 2
    /\ batch[0].st = "merge" /\ batch[0].writes # <<>>
    /\ batch[1].st = "done" /\ 0 \in Hits(1)
    /\ ~warm

\* C9 (as claimed): after a run in which every item was resolved with a
\* non-empty parsed result, a second run on the same instance with the same
\* items makes no network call and returns the same list as the first.
C9_SecondRunSame ==
    (phase = "returned" /\ prev_results # <<>>) =>
        net_attempts = 0 /\ final_results = prev_results

\* The part of C9 the code keeps: the second run makes no network call and
\* never invokes the prompt builder.
C9_SecondRunNoNetwork ==
    (phase \in {"running", "returned"} /\ prev_results # <<>>) =>
        net_attempts = 0 /\ prompt_calls = 0

\* The number of cache writes batch b made under key k.
WritesOf(b, k) ==
    Cardinality({j \in 1..Len(batch[b].writes) : batch[b].writes[j] = k})

\* C10 (as claimed): with max_retries = 3, when attempts 1 and 2 fail and
\* attempt 3 succeeds, exactly three attempts are made, the items resolve
\* from the third response, and exactly one cache write occurs for each
\* resolved item's key.  The batches looked at are those whose every sent
\* item resolved with a non-empty text.
C10_ThirdAttempt ==
    phase = "running" =>
        \A b \in BatchIds :
            (/\ batch[b].st = "done"
             /\ use_cache_key
             /\ max_retries = DefaultMaxRetries
             /\ batch[b].sleeps = DefaultMaxRetries - 1
             /\ ~batch[b].transport_failed
             /\ \A r \in RemainingOf(batch[b]) :
                    r \in DOMAIN batch[b].results /\ batch[b].results[r] \in ParsedValues)
            => /\ batch[b].attempts = DefaultMaxRetries
               /\ batch[b].resp_attempt = DefaultMaxRetries
               /\ \A r \in RemainingOf(batch[b]) :
                     WritesOf(b, get_cache_key(ItemAt(b, r))) = 1

\* The part of C10 the code keeps: three attempts and the third response.
C10_ThreeAttempts ==
    phase = "running" =>
        \A b \in BatchIds :
            (/\ batch[b].st = "done"
             /\ max_retries = DefaultMaxRetries
             /\ batch[b].sleeps = DefaultMaxRetries - 1
             /\ ~batch[b].transport_failed)
            => /\ batch[b].attempts = DefaultMaxRetries
               /\ batch[b].resp_attempt = DefaultMaxRetries

\* A batch is pending or in flight: submitted, inside process_batch, or
\* finished and not yet consumed by the collection loop.
Pending(b) == batch[b].st # "collected"

\* C11: a run that has started eventually returns, and when it has
\* returned no batch is pending or in flight.
C11_RunsToCompletion ==
    /\ [](phase = "returned" => \A b \in BatchIds : ~Pending(b))
    /\ (phase = "running" ~> phase = "returned")

\* A returned run of two batches: one ran out of retries, the other raised.
C11_Witness ==
    /\ phase = "returned" /\ T = 2
    /\ \A b \in BatchIds : ~Pending(b)
    /\ net_attempts = max_retries /\ ~got_200
    /\ failed_slots = {0, 1}
    /\ prompt_calls = 2

\* The batch that owns the result slot a.
BatchOf(a) == a \div batch_size

\* The collection of a future that holds an exception: the run goes on, no
\* sibling's future is touched, the batch's own slots become None and every
\* other slot keeps its value.
C12_FailedCollected ==
    \A b \in BatchIds :
        (phase = "running" /\ batch[b].st = "failed" /\ batch'[b].st = "collected")
        => /\ phase' = "running"
           /\ \A c \in BatchIds \ {b} : batch'[c] = batch[c]
           /\ \A a \in DOMAIN all_results :
                 all_results'[a] = IF a \in BatchSlots(b) THEN None ELSE all_results[a]

\* A result slot changes only when the future of its own batch is
\* collected, and a future that holds a result map puts the map's value (or
\* None, when the observer raises) into the slot.
C12_SlotOwned ==
    \A a \in DOMAIN all_results :
        (phase = "running" /\ phase' = "running" /\ all_results'[a] # all_results[a])
        => /\ Finished(BatchOf(a))
           /\ batch'[BatchOf(a)].st = "collected"
           /\ (batch[BatchOf(a)].st = "done" =>
                  all_results'[a] \in {None, batch[BatchOf(a)].results[a - StartIdx(BatchOf(a), batch_size)]})

\* C12: a batch whose processing raises is caught by the collection loop:
\* the run is never aborted, the items of the batch end with their fallback
\* values, and the outputs of every other batch are the ones its own
\* process_batch returned.
C12_FailureIsolated ==
    /\ [](phase # "raised")
    /\ [](phase = "returned" =>
            \A a \in failed_slots : translations[a + 1] = en_value(items[a + 1]))
    /\ [][C12_FailedCollected /\ C12_SlotOwned]_vars

\* Two batches: the sibling's text was collected first, then the second
\* batch's exception; the run returned the text and the fallback.
C12_Witness ==
    /\ phase = "returned" /\ T = 2
    /\ failed_slots = {1}
    /\ progress_log = << <<1, 2>> >>
    /\ translations[1] \in ParsedValues
    /\ translations[2] = en_value(items[2])

\* C13: when the run has returned, every slot that holds no result (no
\* batch wrote it, or it was set to None) carries the item's fallback value
\* in the list of translate_items, and no element of that list is None:
\* each is a cached or parsed value for the item or the item's en_value.
C13_NoUnresolved ==
    phase = "returned" =>
        /\ Len(translations) = N
        /\ \A i \in 1..N :
              /\ translations[i] # None
              /\ all_results[i - 1] = None => translations[i] = en_value(items[i])
              /\ all_results[i - 1] # None =>
                    /\ translations[i] = all_results[i - 1]
                    /\ translations[i] \in ProducedFor(KeyOf(i))

\* One batch of two items returned a map without an entry for the second
\* item: its slot was never written and holds the fallback.
C13_Witness ==
    /\ phase = "returned" /\ N = 2 /\ T = 1
    /\ failed_slots = {}
    /\ progress_log = << <<1, 1>> >>
    /\ final_results[1] \in ParsedValues /\ final_results[2] = None
    /\ translations = <<final_results[1], en_value(items[2])>>

\* With batch size 1: a batch requests at most one item, and a prompt is
\* built from exactly the one item of its batch; a returned run without
\* cache hits has built N prompts and invoked the transport N times.
C14_OneItemPerRequest ==
    (batch_size = 1 /\ phase \in {"running", "returned"}) =>
        /\ T = N
        /\ \A b \in BatchIds :
              /\ Len(batch[b].remaining_indices) <= 1
              /\ batch[b].st \in {"request", "merge"} => batch[b].remaining_indices = <<0>>
              /\ DOMAIN batch[b].results \subseteq {0}
        /\ (phase = "returned" /\ cache_hits = 0) =>
              (transport_calls = N /\ prompt_calls = N)

\* With batch size 1 and no cache hit: the result of item b changes only in
\* batch b's own request (to None, when the request failed) or in its merge
\* loop (to the value of an entry of its own response), and slot b receives
\* the result of batch b.
C14_OwnResponse ==
    (batch_size = 1 /\ phase = "running" /\ phase' = "running") =>
        \A b \in BatchIds :
            /\ (/\ batch'[b].cached_results = EmptyMap
                /\ batch'[b].st # "collected"
                /\ batch'[b].results # batch[b].results)
               => \/ /\ batch[b].st = "request"
                     /\ batch'[b].results = [x \in {0} |-> None]
                  \/ /\ batch[b].st = "merge"
                     /\ batch'[b].results = [x \in {0} |-> Head(batch[b].batch_results)[2]]
            /\ all_results'[b] # all_results[b]
               => /\ batch[b].st = "done"
                  /\ batch'[b].st = "collected"
                  /\ all_results'[b] = batch[b].results[0]

\* C14: with batch size 1 each item is its own request: N transport
\* invocations in a run of N items without cache hits, one item per prompt,
\* and an item's output comes from the response to its own request.
C14_BatchSizeOne ==
    /\ []C14_OneItemPerRequest
    /\ [][C14_OwnResponse]_vars

\* Two items with the same key and no cache hit: both batches were in
\* flight together, each made its own request, and the two outputs differ.
C14_Witness ==
    /\ phase = "returned" /\ batch_size = 1 /\ N = 2 /\ items[1] = items[2]
    /\ use_cache_key /\ cache_hits = 0
    /\ transport_calls = 2 /\ prompt_calls = 2
    /\ final_results[1] \in ParsedValues /\ final_results[2] \in ParsedValues
    /\ final_results[1] # final_results[2]

\* The absolute indices batch b of the finished loop holds, and the result
\* slots start_idx + relative_idx the collection loop addresses for it.
CutIndices(b) == {cut.batches[b + 1][j] : j \in 1..Len(cut.batches[b + 1])}
CutSlots(b) == {StartIdx(b, batch_size) + r : r \in 0..(Len(cut.batches[b + 1]) - 1)}

\* C15: for N items and batch size B >= 1 the loop produces ceil(N/B)
\* batches; batch i holds the indices i*B .. min((i+1)*B, N) - 1 in order;
\* every index is in exactly one batch and the slots of distinct batches
\* are disjoint.
C15_Batcher ==
    cut.done =>
        LET k == Len(cut.batches) IN
        /\ k * batch_size >= N
        /\ (k > 0 => (k - 1) * batch_size < N)
        /\ k = T
        /\ \A b \in 0..(k - 1) :
              /\ cut.batches[b + 1] =
                    [j \in 1..(Min((b + 1) * batch_size, N) - b * batch_size) |->
                        b * batch_size + j - 1]
              /\ Len(cut.batches[b + 1]) = BatchLen(N, b, batch_size)
              /\ CutSlots(b) = CutIndices(b)
        /\ \A a \in 0..(N - 1) :
              Cardinality({b \in 0..(k - 1) : a \in CutIndices(b)}) = 1
        /\ \A b, c \in 0..(k - 1) : b # c => CutSlots(b) \cap CutSlots(c) = {}

\* 45 items in batches of 20: sizes 20, 20 and 5.
C15_Witness ==
    /\ cut.done /\ N = 45 /\ batch_size = 20
    /\ Len(cut.batches) = 3
    /\ Len(cut.batches[1]) = 20 /\ Len(cut.batches[2]) = 20 /\ Len(cut.batches[3]) = 5
    /\ cut.batches[3] = <<40, 41, 42, 43, 44>>

\* C16: a call with no items returns the empty list at once: the call is
\* never in progress, there is no batch and no worker, no callback was
\* invoked and no network attempt made, and the cache is as it was.
C16_EmptyInput ==
    N = 0 =>
        /\ phase \in {"idle", "returned"}
        /\ batch = <<>>
        /\ final_results = <<>> /\ translations = <<>>
        /\ progress_log = <<>>
        /\ prompt_calls = 0 /\ transport_calls = 0 /\ net_attempts = 0
        /\ cache_hits = 0
        /\ cache = EmptyMap /\ all_results = EmptyMap

\* A call with the empty list has returned.
C16_Witness ==
    /\ phase = "returned" /\ items = <<>>
    /\ translations = <<>> /\ batch = <<>>

\* C17 (as claimed): construction with a configuration that cannot be
\* imported ends with an error returned to the caller and never ends the
\* process.
C17_ConfigError ==
    /\ conf.outcome # "exit"
    /\ conf.outcome = "translator" => ~ImportFails(conf, FactoryNames)
    /\ conf.outcome = "loaded" => ~ImportFails(conf, LegacyNames)

\* The merge loop of batch b visits an entry whose index denotes one of
\* the remaining items.
MergesEntry(b) ==
    /\ phase = "running"
    /\ batch[b].st = "merge"
    /\ batch'[b] # batch[b]
    /\ Head(batch[b].batch_results)[1] >= 0
    /\ EntryApplies(batch[b], Head(batch[b].batch_results)[1])

\* A non-empty parsed value becomes the item's result and is written to
\* the cache under the item's key.
C18_NonEmptyStep ==
    \A b \in BatchIds :
        LET idx == Head(batch[b].batch_results)[1]
            result == Head(batch[b].batch_results)[2]
            original_idx == batch[b].remaining_indices[idx + 1]
        IN  (MergesEntry(b) /\ result \in ParsedValues)
            => /\ batch'[b].results[original_idx] = result
               /\ use_cache_key =>
                     cache' = Put(cache, get_cache_key(ItemAt(b, original_idx)), result)

\* An empty parsed value (the empty string, or None) gives the item no
\* result and writes nothing to the cache.
C18_EmptyStep ==
    \A b \in BatchIds :
        LET idx == Head(batch[b].batch_results)[1]
            result == Head(batch[b].batch_results)[2]
            original_idx == batch[b].remaining_indices[idx + 1]
        IN  (MergesEntry(b) /\ result \in {EmptyStr, None})
            => /\ batch'[b].results = batch[b].results
               /\ cache' = cache

\* The list of translate_items holds no empty text: an item without a
\* non-empty value has its en_value.
C18_NoEmptyOutput ==
    phase = "returned" =>
        \A i \in 1..N : translations[i] \in ParsedValues \cup {en_value(items[i])}

\* C18 (as claimed): a non-empty parsed value becomes the item's result and
\* is cached under the item's key; an empty or absent parsed value leaves
\* the item with its fallback value and writes nothing to the cache.
C18_ParsedValueRule ==
    /\ []C18_NoEmptyOutput
    /\ [][C18_NonEmptyStep /\ C18_EmptyStep]_vars

\* The part of C18 the code keeps: a non-empty value is stored and cached,
\* and None or no entry leaves the fallback and no cache write.
C18_NonEmptyKept ==
    [][C18_NonEmptyStep]_vars

\* process_batch of batch b returns after a request whose every attempt
\* failed.
RetriesExhausted(b) ==
    /\ phase = "running"
    /\ batch[b].st = "request"
    /\ batch'[b].st = "done"
    /\ batch'[b].transport_failed
    /\ batch'[b].resp_attempt = 0

\* The map returned after exhausted retries: None (the fallback) for every
\* remaining item, the cached value for every hit, nothing else; the step
\* writes nothing to the cache.
C19_FailureStep ==
    \A b \in BatchIds :
        RetriesExhausted(b)
        => /\ batch'[b].attempts = max_retries
           /\ DOMAIN batch'[b].results = Hits(b) \cup RemainingOf(batch[b])
           /\ \A r \in RemainingOf(batch[b]) : batch'[b].results[r] = None
           /\ \A h \in Hits(b) : batch'[b].results[h] = batch[b].cached_results[h]
           /\ batch'[b].writes = <<>>
           /\ cache' = cache

\* C19: on transport failure every remaining item resolves to its fallback
\* value, the cache hits keep their cached values and nothing is written to
\* the cache.
C19_TransportFailure ==
    /\ [][C19_FailureStep]_vars
    /\ [](phase = "returned" =>
            \A a \in failed_slots :
                final_results[a + 1] = None /\ translations[a + 1] = en_value(items[a + 1]))

\* A batch of two items: the first hit the cache, the request for the
\* second failed three times; the map holds the cached value and None.
C19_Witness ==
    /\ phase = "running" /\ T = 1 /\ N = 2 /\ max_retries = DefaultMaxRetries
    /\ batch[0].st = "done" /\ batch[0].transport_failed
    /\ batch[0].attempts = DefaultMaxRetries /\ batch[0].resp_attempt = 0
    /\ Hits(0) = {0} /\ batch[0].remaining_indices = <<1>>
    /\ batch[0].results[0] = cache[items[1]] /\ batch[0].results[1] = None
    /\ items[2] \notin DOMAIN cache

\* A map process_batch returned is complete: its keys are exactly the
\* relative indices 0..k-1 of the batch's k items.
C20_MapComplete ==
    phase = "running" =>
        \A b \in BatchIds :
            batch[b].st = "done" =>
                DOMAIN batch[b].results = 0..(BatchLen(N, b, batch_size) - 1)

\* C20 (as claimed): process_batch never ends with an exception, and the
\* map it returns has exactly the keys 0..k-1, also when the parser returns
\* fewer entries than items or a callback raises.
C20_NeverRaises ==
    phase = "running" =>
        /\ \A b \in BatchIds : batch[b].st # "failed"
        /\ C20_MapComplete

\* C21 (as claimed): every result slot is assigned exactly once in a run:
\* never more than once while the run is in progress, and once when it has
\* returned, on the success path and on the error path of the collection loop.
C21_WrittenOnce ==
    /\ phase = "running" => \A a \in DOMAIN slot_writes : slot_writes[a] <= 1
    /\ phase = "returned" => \A a \in DOMAIN slot_writes : slot_writes[a] = 1

\* The part of C21 the code keeps: with an observer that returns no slot
\* is assigned twice, and the slots of a batch whose future holds an
\* exception are each assigned once.
C21_AtMostOnce ==
    phase \in {"running", "returned"} =>
        \A a \in DOMAIN slot_writes : slot_writes[a] <= 1

\* The positions of the posts and of the sleeps in the event log of the
\* call, and the outcome of the post at position j.
PostsAt == {j \in 1..Len(rt.log) : rt.log[j][1] = "post"}
SleepsAt == {j \in 1..Len(rt.log) : rt.log[j][1] = "sleep"}
Succeeded(j) == rt.log[j][2] \in {"text", "empty"}

\* The outcomes of the posts in order, filled up to max_retries with
\* outcomes of attempts that were not made.
PostOutcomes ==
    LET posts == SelectSeq(rt.log, LAMBDA e : e[1] = "post")
    IN  [j \in 1..max_retries |-> IF j <= Len(posts) THEN posts[j][2] ELSE "exception"]

\* The loop followed attempt by attempt returns what RetryLoop computes.
RetryLoopAgrees ==
    rt.pc = "returned" =>
        LET r == send_request_with_retry(PostOutcomes, max_retries) IN
        /\ r.response = rt.response
        /\ r.attempts = Cardinality(PostsAt)
        /\ r.sleeps = Cardinality(SleepsAt)
        /\ r.resp_attempt = (IF rt.response = "None" THEN 0 ELSE Cardinality(PostsAt))

\* C22: a call makes at most max_retries attempts, none after a successful
\* one, and exactly max_retries when every attempt fails.
C22_AttemptsBounded ==
    /\ Cardinality(PostsAt) <= max_retries
    /\ \A j \in PostsAt : Succeeded(j) => j = Len(rt.log)
    /\ (rt.pc = "returned" /\ \A j \in PostsAt : ~Succeeded(j))
          => Cardinality(PostsAt) = max_retries
    /\ (rt.pc = "returned" /\ Cardinality(PostsAt) < max_retries)
          => Succeeded(Len(rt.log))
    /\ RetryLoopAgrees

\* max_retries = 4: two failed attempts, then a text at the third; the
\* fourth attempt is never made.
C22_Witness ==
    /\ rt.pc = "returned" /\ max_retries = 4
    /\ Cardinality(PostsAt) = 3
    /\ rt.log[1] = <<"post", "exception">> /\ rt.log[3] = <<"post", "status">>
    /\ rt.log[Len(rt.log)] = <<"post", "text">>
    /\ rt.response = "text"

\* C23: the call never raises, whatever the attempts throw, and when every
\* attempt has failed it returns None.
C23_ReturnsNone ==
    /\ rt.pc # "raised"
    /\ (rt.pc = "returned" /\ \A j \in PostsAt : ~Succeeded(j)) => rt.response = "None"
    /\ rt.response = "None" =>
          (rt.pc = "returned" /\ Cardinality(PostsAt) = max_retries)

\* Three attempts that all threw: the call returned None.
C23_Witness ==
    /\ rt.pc = "returned" /\ max_retries = DefaultMaxRetries
    /\ Cardinality(PostsAt) = DefaultMaxRetries
    /\ \A j \in PostsAt : rt.log[j] = <<"post", "exception">>
    /\ rt.response = "None"

\* C24: every sleep lasts retry_delay; a sleep comes directly after a
\* failed attempt and only when another attempt follows; a call whose
\* attempts all failed has slept max_retries - 1 times, and nothing is
\* slept after the last attempt or after a success.
C24_FixedDelay ==
    /\ \A j \in SleepsAt :
          /\ rt.log[j][2] = rt.delay
          /\ j > 1 /\ (j - 1) \in PostsAt /\ ~Succeeded(j - 1)
          /\ j < Len(rt.log) => (j + 1) \in PostsAt
          /\ Cardinality({i \in PostsAt : i < j}) < max_retries
    /\ rt.pc = "returned" =>
          /\ rt.log # <<>> /\ Len(rt.log) \in PostsAt
          /\ (\A j \in PostsAt : ~Succeeded(j)) =>
                Cardinality(SleepsAt) = max_retries - 1
          /\ Cardinality(SleepsAt) = Cardinality(PostsAt) - 1

\* Four failed attempts with retry_delay 3: three sleeps of 3 between them.
C24_Witness ==
    /\ rt.pc = "returned" /\ max_retries = 4 /\ rt.delay = 3
    /\ rt.response = "None"
    /\ Cardinality(SleepsAt) = 3
    /\ rt.log[2] = <<"sleep", 3>> /\ rt.log[4] = <<"sleep", 3>> /\ rt.log[6] = <<"sleep", 3>>
    /\ Len(rt.log) = 7

\* The calls of the progress observer made for batch b.
CallsFor(b) == {j \in 1..Len(progress_log) : progress_log[j][1] = b + 1}

\* C25 (as claimed): in a returned run of T batches the observer was called
\* T times, once for each batch, whether the batch ended in success or in
\* fallback.
C25_OncePerBatch ==
    phase = "returned" =>
        /\ Len(progress_log) = T
        /\ \A b \in BatchIds : Cardinality(CallsFor(b)) = 1

\* The part of C25 the code keeps: no batch gets more than one call, and a
\* batch gets no call only when its future held an exception.
C25_AtMostOncePerBatch ==
    phase \in {"running", "returned"} =>
        /\ \A b \in BatchIds : Cardinality(CallsFor(b)) <= 1
        /\ \A b \in BatchIds :
              (batch[b].st = "collected" /\ CallsFor(b) = {})
                  => BatchSlots(b) \subseteq failed_slots

\* C26 (as claimed): the k-th call of the observer in a run receives
\* (k, T): the number of batches completed so far and the number of batches.
C26_CompletedCount ==
    phase \in {"running", "returned"} =>
        \A k \in 1..Len(progress_log) : progress_log[k] = <<k, T>>

\* The part of C26 the code keeps: every call receives the batch's own
\* number (batch_idx + 1, between 1 and T) and the number of batches.
C26_BatchNumber ==
    phase \in {"running", "returned"} =>
        \A k \in 1..Len(progress_log) :
            /\ progress_log[k][1] \in 1..T
            /\ progress_log[k][2] = T

\* The batches inside process_batch on a worker thread.
InProcess == {b \in BatchIds : Running(b)}

\* A submitted batch that no worker has taken yet.
Waiting(b) == b \in DOMAIN batch /\ batch[b].st = "queued"

\* C27: at no moment of a run are more than max_workers batches inside
\* process_batch; a waiting batch is taken only while fewer than
\* max_workers are, and every submitted batch is eventually taken.
C27_BoundedPool ==
    /\ [](phase = "running" => Cardinality(InProcess) <= max_workers)
    /\ [][\A b \in DOMAIN batch :
            (Waiting(b) /\ phase' = "running" /\ batch'[b].st # "queued")
                => Cardinality(InProcess) < max_workers]_vars
    /\ \A b \in 0..(MaxItems - 1) :
            (phase = "running" /\ Waiting(b)) ~> ~Waiting(b)

\* One worker, two batches: the first is inside process_batch and the
\* second waits for the worker.
C27_Witness ==
    /\ phase = "running" /\ T = 2 /\ max_workers = 1
    /\ Running(0) /\ Waiting(1)
    /\ Cardinality(InProcess) = max_workers

\* The j-th cache miss of a batch among its first n items: the j-th
\* smallest batch index below n that is not a hit.
RECURSIVE Misses(_, _, _)
Misses(hits, i, n) ==
    IF i >= n THEN <<>>
    ELSE (IF i \in hits THEN <<>> ELSE <<i>>) \o Misses(hits, i + 1, n)

\* The batch has called the prompt builder.
Prompted(b) ==
    \/ batch[b].st \in {"merge", "done"} /\ batch[b].remaining_indices # <<>>
    \/ batch[b].st = "failed" /\ batch[b].prompt_items # <<>>

\* C28: while a batch is inside process_batch or its future is not yet
\* consumed, remaining_indices lists the batch indices of the cache misses
\* in batch order, remaining_items holds the items at those indices, the
\* prompt builder was called with exactly those items (never one that hit
\* the cache); and a merge step stores a parsed text at the batch index of
\* the item the text is for.
C28_RemainingMapped ==
    /\ [](phase = "running" =>
            \A b \in BatchIds :
              batch[b].st \notin {"queued", "collected"} =>
                LET rec == batch[b]
                    scanned == IF use_cache_key /\ rec.st = "lookup" THEN rec.i
                               ELSE BatchLen(N, b, batch_size)
                IN  /\ rec.remaining_indices = Misses(Hits(b), 0, scanned)
                    /\ Len(rec.remaining_items) = Len(rec.remaining_indices)
                    /\ \A j \in 1..Len(rec.remaining_indices) :
                          /\ rec.remaining_items[j] = ItemAt(b, rec.remaining_indices[j])
                          /\ rec.remaining_indices[j] \notin Hits(b)
                    /\ rec.prompt_items \in {<<>>, rec.remaining_items}
                    /\ Prompted(b) => rec.prompt_items = rec.remaining_items)
    /\ [][\A b \in DOMAIN batch :
            (phase = "running" /\ batch[b].st = "merge" /\ phase' = "running")
              => \A x \in DOMAIN batch'[b].results :
                   (x \notin DOMAIN batch[b].results
                       \/ batch'[b].results[x] # batch[b].results[x])
                     => LET j == Head(batch[b].batch_results)[1]
                            v == batch'[b].results[x]
                        IN  /\ v = Head(batch[b].batch_results)[2]
                            /\ x = PyIndex(batch[b].remaining_indices, j)
                            /\ x \notin Hits(b)
                            /\ v \in ResultsOf(StartIdx(b, batch_size) + x + 1)]_vars

\* A batch of two items whose first item hit the cache: the prompt builder
\* received the second item only, and the text parsed for it is stored at
\* batch index 1.
C28_Witness ==
    /\ phase = "running" /\ use_cache_key /\ N = 2 /\ T = 1
    /\ items[1] # items[2]
    /\ batch[0].st = "done"
    /\ Hits(0) = {0}
    /\ batch[0].remaining_indices = <<1>>
    /\ batch[0].prompt_items = <<items[2]>>
    /\ 1 \in DOMAIN batch[0].results
    /\ batch[0].results[1] = Parsed(KeyOf(2), 1)

\* C29: the parser runs its second loop only when the first loop's dict
\* has a number of entries different from len(items); when the first loop
\* gives one entry per item, that dict is returned unchanged.
C29_Tier2OnlyOnMismatch ==
    pr.pc = "returned" =>
        /\ pr.tier = 2 => Cardinality(DOMAIN pr.tier1) # pr.n
        /\ DOMAIN pr.tier1 = 0..(pr.n - 1) =>
              (pr.tier = 1 /\ pr.translations = pr.tier1)

\* Two items, the labels in reverse order: the first loop gives one entry
\* per item and its dict is returned.
C29_Witness ==
    /\ pr.pc = "returned" /\ pr.n = 2 /\ pr.tier = 1
    /\ pr.text = <<"2", "x", "\n", "1", "x">>
    /\ pr.translations = (0 :> <<"x">>) @@ (1 :> <<"x">>)

\* The second loop ran because the first loop's dict was short.
C29_WitnessTier2 ==
    /\ pr.pc = "returned" /\ pr.n = 2 /\ pr.tier = 2
    /\ DOMAIN pr.tier1 = {0}
    /\ DOMAIN pr.translations = {0, 1}

\* The leading integer label of a line: the number its leading digits
\* spell, 0 when the line starts with no digit.
LeadingLabel(line) == IntOf(SubSeq(Strip(line), 1, DigitRun(Strip(line), 1)))

\* The lines of the response whose leading label is n.
LinesLabelled(n) == {i \in 1..Len(pr.lines) : LeadingLabel(pr.lines[i]) = n}

\* C30 (as claimed): every entry k of the first loop's dict comes from a
\* line whose leading integer label is k + 1, and every line with a label
\* between 1 and len(items) followed by some text gives an entry; a line
\* without a label or with a label outside that range contributes nothing.
C30_Tier1Labels ==
    pr.pc # "tier1" =>
        /\ \A k \in DOMAIN pr.tier1 : LinesLabelled(k + 1) # {}
        /\ \A i \in 1..Len(pr.lines) :
              LET line == Strip(pr.lines[i]) IN
              (LeadingLabel(line) \in 1..pr.n /\ Len(line) > DigitRun(line, 1))
                  => (LeadingLabel(line) - 1) \in DOMAIN pr.tier1

\* The part of C30 the code keeps: every key of the first loop's dict and
\* of the returned dict lies in 0..len(items)-1, and every value of the
\* first loop's dict is a non-empty, trimmed text.
C30_KeysInRange ==
    /\ DOMAIN pr.tier1 \subseteq 0..(pr.n - 1)
    /\ DOMAIN pr.translations \subseteq 0..(pr.n - 1)
    /\ \A k \in DOMAIN pr.tier1 :
          pr.tier1[k] # <<>> /\ Strip(pr.tier1[k]) = pr.tier1[k]

\* t is what is left of s after some leading characters are taken away.
IsSuffix(t, s) == Len(t) <= Len(s) /\ t = SubSeq(s, Len(s) - Len(t) + 1, Len(s))

\* The line starts with something the second loop removes: a digit or one
\* of the two prefixes.
HasPrefix(line) == line # <<>> /\ Head(line) \in Digits \cup {Zhongwen, Fanyi}

\* C31 (as claimed): when the second loop has run, and the response has
\* one non-empty line per item, every item has a non-empty result.
C31_Tier2NonEmpty ==
    (/\ pr.pc = "returned" /\ pr.tier = 2
     /\ Len(pr.lines) = pr.n
     /\ \A i \in 1..Len(pr.lines) : Strip(pr.lines[i]) # <<>>)
        => /\ DOMAIN pr.translations = 0..(pr.n - 1)
           /\ \A i \in DOMAIN pr.translations : pr.translations[i] # <<>>

\* The part of C31 the code keeps: the second loop gives line i, without
\* what it removes at its start, to item i for every i below the number of
\* lines and the number of items.
C31_LineOrder ==
    (pr.pc = "returned" /\ pr.tier = 2) =>
        /\ DOMAIN pr.translations = 0..(Min(Len(pr.lines), pr.n) - 1)
        /\ \A i \in DOMAIN pr.translations :
              LET line == Strip(pr.lines[i + 1]) IN
              /\ IsSuffix(pr.translations[i], line)
              /\ ~HasPrefix(line) => pr.translations[i] = line
              /\ Strip(pr.translations[i]) = pr.translations[i]

\* The posts answered with status 200 from which no text was extracted:
\* the text was "" or the body had another shape.
NoTextAt == {j \in PostsAt : rt.log[j][2] \in {"empty", "malformed"}}

\* C32 (as claimed): a 200 response that yields no non-empty text ends the
\* retry loop: no sleep and no attempt follows it, and the call has failed.
C32_NoTextEndsLoop ==
    /\ \A j \in NoTextAt : j = Len(rt.log)
    /\ (rt.pc = "returned" /\ NoTextAt # {}) => rt.response \in {"None", "empty"}

\* The part of C32 the code keeps: a 200 response whose text is "" ends the
\* loop with that text, which process_batch counts as a failure, and any
\* call in which a 200 response yielded no text and none yielded a text
\* has failed.
C32_EmptyEndsLoop ==
    /\ \A j \in PostsAt : rt.log[j][2] = "empty" =>
          (j = Len(rt.log) /\ rt.pc = "returned" /\ rt.response = "empty")
    /\ (rt.pc = "returned" /\ NoTextAt # {} /\ rt.response # "text")
          => ResponseFailed(rt)

\* The collection loop consumes the future of batch b in this step.
Collects(b) ==
    /\ phase = "running"
    /\ b \in DOMAIN batch
    /\ Finished(b)
    /\ batch'[b].st = "collected"

\* C33 (as claimed): when the future of a batch is consumed, every item of
\* the batch that hit the cache in the lookup has the cached value in its
\* slot of all_results, whatever else happened to the batch.
C33_CachedValueKept ==
    [][\A b \in DOMAIN batch :
         Collects(b) =>
            \A i \in Hits(b) :
               all_results'[StartIdx(b, batch_size) + i] = batch[b].cached_results[i]]_vars

\* C33 for the futures that hold an exception only (a callback raised
\* inside process_batch).
C33_RaisedKeepsCached ==
    [][\A b \in DOMAIN batch :
         (Collects(b) /\ batch[b].st = "failed") =>
            \A i \in Hits(b) :
               all_results'[StartIdx(b, batch_size) + i] = batch[b].cached_results[i]]_vars

\* C34 (as claimed): when the future of a batch whose process_batch has
\* returned is consumed, every value of the returned map is in its slot
\* of all_results, also when the progress observer raises.
C34_ReturnedMapKept ==
    [][\A b \in DOMAIN batch :
         (Collects(b) /\ batch[b].st = "done") =>
            \A i \in DOMAIN batch[b].results :
               all_results'[StartIdx(b, batch_size) + i] = batch[b].results[i]]_vars

\* Batch b leaves the request stage of process_batch in this step.
LeavesRequest(b) == batch[b].st = "request" /\ batch'[b].st # "request"

\* C35: a run makes at most T = ceil(N / batch_size) calls of
\* _send_request_with_retry and at most T * max_retries network attempts;
\* a batch with at least one cache miss makes exactly one call, when it
\* leaves the request stage, which it enters once; a fully cached batch
\* makes none.
C35_TransportBound ==
    /\ [](phase \in {"running", "returned"} =>
            /\ T = (N + batch_size - 1) \div batch_size
            /\ transport_calls <= T
            /\ net_attempts <= transport_calls * max_retries
            /\ net_attempts <= T * max_retries)
    /\ [](phase = "running" =>
            \A b \in BatchIds :
               /\ batch[b].attempts <= max_retries
               /\ batch[b].st \in {"merge", "done"} =>
                     (batch[b].attempts >= 1 <=> batch[b].remaining_indices # <<>>)
               /\ batch[b].st = "request" => batch[b].remaining_indices # <<>>)
    /\ [][(phase = "running" /\ phase' = "running") =>
            /\ \A b \in BatchIds :
                  /\ LeavesRequest(b) =>
                        (/\ transport_calls' = transport_calls + 1
                         /\ batch'[b].attempts \in 1..max_retries
                         /\ net_attempts' = net_attempts + batch'[b].attempts)
                  /\ batch'[b].st = "request" =>
                        batch[b].st \in {"queued", "lookup", "request"}
            /\ transport_calls' # transport_calls =>
                  \E b \in BatchIds : LeavesRequest(b)]_vars

\* A returned run of two batches: one fully cached, which made no call,
\* and one with a miss, whose single call used all its attempts.
C35_Witness ==
    /\ phase = "returned" /\ T = 2 /\ N = 2
    /\ cache_hits = 1
    /\ transport_calls = 1
    /\ max_retries = DefaultMaxRetries
    /\ net_attempts = max_retries

\* The items of batch b, in order.
BatchItems(b) == [j \in 1..BatchLen(N, b, batch_size) |-> ItemAt(b, j - 1)]

\* list(range(len(batch_items))) (line 110)
BatchIndices(b) == [j \in 1..BatchLen(N, b, batch_size) |-> j - 1]

\* C36: without a cache_key_callback every item of a batch is remaining
\* and is sent, no result is taken from the cache, and no step changes the
\* cache.
C36_AllSent ==
    ~use_cache_key =>
        /\ phase \in {"running", "returned"} => cache_hits = 0
        /\ phase = "running" =>
              \A b \in BatchIds :
                 batch[b].st \notin {"queued", "collected"} =>
                    /\ Hits(b) = {}
                    /\ batch[b].remaining_items = BatchItems(b)
                    /\ batch[b].remaining_indices = BatchIndices(b)
                    /\ batch[b].st \in {"merge", "done"} =>
                          batch[b].prompt_items = BatchItems(b)
        /\ phase = "returned" => prompt_calls = T /\ transport_calls = T

C36_NoKeyNoCache == []C36_AllSent /\ [][use_cache_key \/ cache' = cache]_vars

\* A returned run without a cache_key_callback on a client whose cache
\* holds a text for the first item: the item was sent all the same, has
\* another text, and the cache still holds the old one.
C36_Witness ==
    /\ ~use_cache_key /\ phase = "returned" /\ N = 2
    /\ get_cache_key(items[1]) \in DOMAIN cache
    /\ final_results[1] \in ParsedValues
    /\ final_results[1] # cache[get_cache_key(items[1])]
    /\ prompt_calls = T

\* The merge loop of batch b visits in this step an entry whose relative
\* index is not a position of the remaining list.
MergesOutside(b) ==
    /\ phase = "running"
    /\ batch[b].st = "merge"
    /\ batch'[b] # batch[b]
    /\ Head(batch[b].batch_results)[1] \notin 0..(Len(batch[b].remaining_indices) - 1)

\* C40 (as claimed): an entry whose relative index is too large or
\* negative is ignored: the loop goes on, no result changes and the cache
\* is not written.
C40_OutsideIgnored ==
    [][\A b \in DOMAIN batch :
         MergesOutside(b) =>
            /\ batch'[b].results = batch[b].results
            /\ batch'[b].writes = batch[b].writes
            /\ batch'[b].st \in {"merge", "done"}
            /\ cache' = cache]_vars

\* The part of C40 the code keeps: an entry whose relative index is too
\* large is ignored.
C40_TooLargeIgnored ==
    [][\A b \in DOMAIN batch :
         (MergesOutside(b) /\ Head(batch[b].batch_results)[1] >= 0) =>
            /\ batch'[b].results = batch[b].results
            /\ batch'[b].writes = batch[b].writes
            /\ batch'[b].st \in {"merge", "done"}
            /\ cache' = cache]_vars

\* C37 (as claimed): with max_retries = 1, for the same items, the same
\* initial cache and the same answer per batch, both translators return
\* the same list and end with the same cache.
C37_SameAsLegacy ==
    eq.pc = "returned" =>
        /\ eq.new.final = eq.legacy.final
        /\ eq.new.cache = eq.legacy.cache

\* The part of C37 the code keeps: the two agree whenever no line of a
\* response was parsed to the empty string.
C37_SameWithoutEmpty ==
    (eq.pc = "returned" /\ ~eq.empties) =>
        /\ eq.new.final = eq.legacy.final
        /\ eq.new.cache = eq.legacy.cache

\* The section a line of the file lies in: the name of the nearest header
\* at or above it ("" above the first header).
RECURSIVE SectionOf(_, _)
SectionOf(lines, i) ==
    IF i < 1 THEN ""
    ELSE IF lines[i].t = "header" THEN lines[i].s
    ELSE SectionOf(lines, i - 1)

\* Line i (1-based) holds key k inside section s.
HoldsKey(lines, i, s, k) ==
    /\ i \in 1..Len(lines)
    /\ lines[i].t = "key"
    /\ lines[i].k = k
    /\ SectionOf(lines, i) = s

KeyLinesOf(lines, s, k) == {i \in 1..Len(lines) : HoldsKey(lines, i, s, k)}

\* One iteration of the update loop has run.
CfgStep == cf.pc = "loop" /\ cf'.pc = "loop" /\ cf'.done = cf.done + 1

C38_IndexConsistent ==
    cf.pc # "none" =>
        \A sk \in DOMAIN cf.cfg_key_indices :
            HoldsKey(cf.new_lines, cf.cfg_key_indices[sk] + 1, sk[1], sk[2])

C38_StaysIndexed ==
    CfgStep => \A sk \in DOMAIN cf.cfg_key_indices : sk \in DOMAIN cf'.cfg_key_indices

C38_NoDuplicate ==
    (CfgStep /\ KeyLinesOf(cf.new_lines, cf'.last.section, cf'.last.key) # {})
        => Len(cf'.new_lines) = Len(cf.new_lines)

\* C38: after any prefix of the updates every entry of cfg_key_indices
\* names a line holding that key inside that section, an update keeps every
\* indexed key indexed under its own section, and an update of a key that
\* has a line in its section adds no line.
C38_IndexKept ==
    []C38_IndexConsistent /\ [][C38_StaysIndexed /\ C38_NoDuplicate]_vars

\* The part of C38 that holds: the rewriting of a line and the appending
\* of a new section keep the index consistent and every indexed key indexed.
C38_KeptWithoutInsert ==
    [][CfgInsertKey \/ ((C38_IndexConsistent => C38_IndexConsistent') /\ C38_StaysIndexed)]_vars

\* The update rewrote exactly line i as the claim describes.
RewroteOnly(i) ==
    /\ Len(cf'.new_lines) = Len(cf.new_lines)
    /\ \A j \in 1..Len(cf.new_lines) : j # i => cf'.new_lines[j] = cf.new_lines[j]
    /\ cf'.new_lines[i] = KeyLine(cf'.last.key, cf'.last.value, cf.new_lines[i].c)

\* C39: an update whose (section, key) has a line in the file rewrites
\* only that line, commented exactly when the line was commented, and
\* leaves every other line and the number of lines unchanged.
C39_RewritesOnlyThatLine ==
    [][(CfgStep /\ KeyLinesOf(cf.new_lines, cf'.last.section, cf'.last.key) # {})
         => \E i \in KeyLinesOf(cf.new_lines, cf'.last.section, cf'.last.key) :
                RewroteOnly(i)]_vars

\* The part of C39 that holds: the first update of a call, for a key with
\* exactly one line in its section of the parsed file.
C39_FirstUpdateUniqueKey ==
    [][(CfgStep /\ cf.done = 0
          /\ Cardinality(KeyLinesOf(cf.new_lines, cf'.last.section, cf'.last.key)) = 1)
         => \E i \in KeyLinesOf(cf.new_lines, cf'.last.section, cf'.last.key) :
                RewroteOnly(i)]_vars

====
